---- MODULE Spec2Model ----
(***************************************************************************)
(* A model of the heuristic static-analysis engine of github-analyzer-pro  *)
(* (tokenize, shingles, jaccard, approxComplexity, countMaxNesting and     *)
(* analyzeFiles).                                                          *)
(*                                                                         *)
(* A JavaScript string is modelled as the sequence of its UTF-16 code      *)
(* units, each code unit a one-character TLA+ string: "if" is <<"i","f">>. *)
(* A token is therefore a sequence of characters and a token list is a     *)
(* sequence of such sequences.                                             *)
(***************************************************************************)
EXTENDS Integers, Sequences, FiniteSets, TLC

(***************************************************************************)
(* Characters and the character classes of the tokenizer's regex.          *)
(***************************************************************************)
LF == "\n"
CR == "\r"
TAB == "\t"
SP == " "

\* \w of a JavaScript regex without the u flag: [A-Za-z0-9_]
WordChars ==
  { "a","b","c","d","e","f","g","h","i","j","k","l","m",
    "n","o","p","q","r","s","t","u","v","w","x","y","z",
    "A","B","C","D","E","F","G","H","I","J","K","L","M",
    "N","O","P","Q","R","S","T","U","V","W","X","Y","Z",
    "0","1","2","3","4","5","6","7","8","9","_" }

\* \s restricted to the ASCII white space characters
SpaceChars == { SP, TAB, LF, CR, "\f" }

\* the class [{}()[\];,.:<>+\-*/%=&|!^~?] of the split regex
SeparatorChars ==
  { "{","}","(",")","[","]",";",",",".",":","<",">",
    "+","-","*","/","%","=","&","|","!","^","~","?" }

IsWordChar(ch) == ch \in WordChars

\* the 0-based code unit S[q] of a string, 1-based in the sequence
CharAt(S, q) == S[q + 1]

\* \b at 0-based position q of S: exactly one of S[q-1], S[q] is a word character
WordBoundary(S, q) ==
  LET before == q >= 1 /\ q <= Len(S) /\ IsWordChar(CharAt(S, q - 1))
      after  == q >= 0 /\ q < Len(S) /\ IsWordChar(CharAt(S, q))
  IN  before # after

(***************************************************************************)
(* src.replace(/\r\n/g, "\n")                                              *)
(***************************************************************************)
\* every match of /\r\n/ is a CR directly followed by a LF, and matches cannot
\* overlap: the replacement drops exactly those CRs
\* replace without the g flag: only the first CR LF is replaced
ReplaceCrLfFirstOnly(S) ==
  LET IsCrOfCrLf(n) == S[n] = CR /\ n < Len(S) /\ S[n + 1] = LF
      first == { n \in 1..Len(S) : IsCrOfCrLf(n) /\ \A m \in 1..(n - 1) : ~IsCrOfCrLf(m) }
      marked == [n \in 1..Len(S) |-> << S[n], n \in first >>]
      kept   == SelectSeq(marked, LAMBDA e : ~e[2])
  IN  [n \in 1..Len(kept) |-> kept[n][1]]

ReplaceCrLf(S) ==
  LET IsCrOfCrLf(n) == S[n] = CR /\ n < Len(S) /\ S[n + 1] = LF
      marked == [n \in 1..Len(S) |-> << S[n], IsCrOfCrLf(n) >>]
      kept   == SelectSeq(marked, LAMBDA e : ~e[2])
  IN  [n \in 1..Len(kept) |-> kept[n][1]]

(***************************************************************************)
(* One sticky match of /(\b|\s|[...])/ at position q: the alternatives are *)
(* tried in order, so an (empty) \b match wins over a separator character. *)
(* e is the end of the match and cap the text of the capture group.        *)
(***************************************************************************)
SplitterMatchAt(S, q) ==
  IF WordBoundary(S, q)
  THEN [ok |-> TRUE, e |-> q, cap |-> << >>]
  ELSE IF CharAt(S, q) \in SpaceChars \cup SeparatorChars
       THEN [ok |-> TRUE, e |-> q + 1, cap |-> << CharAt(S, q) >>]
       ELSE [ok |-> FALSE, e |-> q, cap |-> << >>]

(***************************************************************************)
(* String.prototype.split with a regex that has one capture group          *)
(* (ECMAScript RegExp.prototype[Symbol.split]): p is the end of the last   *)
(* separator, q the position tried; a match that ends at p is rejected and *)
(* q advances by one; an accepted match appends S[p,q) and the capture.    *)
(***************************************************************************)
RECURSIVE SplitFrom(_, _, _, _)
SplitFrom(S, p, q, acc) ==
  IF q >= Len(S)
  THEN Append(acc, SubSeq(S, p + 1, Len(S)))
  ELSE LET Accepted(r) == LET n == SplitterMatchAt(S, r) IN n.ok /\ n.e # p
           m == SplitterMatchAt(S, q)
           later == (q + 1)..(Len(S) - 1)
       IN  IF m.ok /\ m.e # p
           THEN SplitFrom(S, m.e, m.e, acc \o << SubSeq(S, p + 1, q), m.cap >>)
           ELSE IF ~(\E h \in later : Accepted(h))
                THEN Append(acc, SubSeq(S, p + 1, Len(S)))
                ELSE \* q advances to the next position whose match is accepted
                     SplitFrom(S, p, CHOOSE h \in later :
                                       Accepted(h) /\ \A o \in (q + 1)..(h - 1) : ~Accepted(o),
                               acc)

SplitBySeparators(S) == SplitFrom(S, 0, 0, << >>)

\* a filter that also drops the tokens of white space
FilterBooleanNonBlank(parts) ==
  SelectSeq(parts, LAMBDA s : Len(s) > 0 /\ \E n \in 1..Len(s) : s[n] \notin SpaceChars)

\* .filter(Boolean) on strings: only the empty string is falsy
FilterBoolean(parts) == SelectSeq(parts, LAMBDA s : Len(s) > 0)

tokenize(src) == FilterBoolean(SplitBySeparators(ReplaceCrLf(src)))

(***************************************************************************)
(* shingles(tokens, k): tokens.slice(i, i + k).join(" ") for every i       *)
(***************************************************************************)
RECURSIVE JoinWithSpace(_)
JoinWithSpace(toks) ==
  IF Len(toks) = 0 THEN << >>
  ELSE IF Len(toks) = 1 THEN toks[1]
       ELSE toks[1] \o << SP >> \o JoinWithSpace(Tail(toks))

\* shingles with the loop bound `i < tokens.length - k`: the last window is lost
shinglesDropLast(tokens, k) ==
  IF Len(tokens) < k THEN << >>
  ELSE [n \in 1..(Len(tokens) - k) |-> JoinWithSpace(SubSeq(tokens, n, n + k - 1))]

shingles(tokens, k) ==
  IF Len(tokens) < k THEN << >>
  ELSE [n \in 1..(Len(tokens) - k + 1) |-> JoinWithSpace(SubSeq(tokens, n, n + k - 1))]

\* new Set(array)
SetOf(arr) == { arr[n] : n \in 1..Len(arr) }

(***************************************************************************)
(* jaccard(a, b): the quotient inter / union is kept as the pair of its    *)
(* numerator and denominator; 0 is <<0, 1>>.                               *)
(***************************************************************************)
\* jaccard with `union = a.size + b.size`: the shared shingles are counted twice
jaccardDoubleCounted(a, b) ==
  LET inter == Cardinality({ s \in a : s \in b })
      union == Cardinality(a) + Cardinality(b)
  IN  IF union = 0 THEN << 0, 1 >> ELSE << inter, union >>

\* jaccard as inter / a.size: the second set counts only through the shared members
jaccardOverFirst(a, b) ==
  LET inter == Cardinality({ s \in a : s \in b })
  IN  IF Cardinality(a) = 0 THEN << 0, 1 >> ELSE << inter, Cardinality(a) >>

\* jaccard with `union = a.size + a.size - inter`
jaccardFirstSizeTwice(a, b) ==
  LET inter == Cardinality({ s \in a : s \in b })
      union == Cardinality(a) + Cardinality(a) - inter
  IN  IF union = 0 THEN << 0, 1 >> ELSE << inter, union >>

\* the Jaccard distance 1 - inter / union in place of the similarity
jaccardDistance(a, b) ==
  LET inter == Cardinality({ s \in a : s \in b })
      union == Cardinality(a) + Cardinality(b) - inter
  IN  IF union = 0 THEN << 0, 1 >> ELSE << union - inter, union >>

\* jaccard with 1 for two empty sets (`union === 0 ? 1 : ...`)
jaccardEmptyIsOne(a, b) ==
  LET inter == Cardinality({ s \in a : s \in b })
      union == Cardinality(a) + Cardinality(b) - inter
  IN  IF union = 0 THEN << 1, 1 >> ELSE << inter, union >>

jaccard(a, b) ==
  LET inter == Cardinality({ s \in a : s \in b })
      union == Cardinality(a) + Cardinality(b) - inter
  IN  IF union = 0 THEN << 0, 1 >> ELSE << inter, union >>

(***************************************************************************)
(* BRANCH_TOKENS and approxComplexity                                      *)
(***************************************************************************)
BRANCH_TOKENS ==
  { <<"i","f">>, <<"e","l","s","e">>, <<"f","o","r">>, <<"w","h","i","l","e">>,
    <<"c","a","s","e">>, <<"c","a","t","c","h">>, <<"?">>, <<"&","&">>, <<"|","|">>,
    <<"t","r","y">>, <<"f","o","r","e","a","c","h">>, <<"s","w","i","t","c","h">> }

\* approxComplexity without the `+ 1` of the baseline path
approxComplexityNoBaseline(tokens) ==
  Len(SelectSeq(tokens, LAMBDA t : t \in BRANCH_TOKENS))

approxComplexity(tokens) ==
  Len(SelectSeq(tokens, LAMBDA t : t \in BRANCH_TOKENS)) + 1

(***************************************************************************)
(* countMaxNesting                                                         *)
(***************************************************************************)
\* depth-- in place of Math.max(0, depth - 1)
RECURSIVE NestingFromUnfloored(_, _, _, _)
NestingFromUnfloored(S, n, depth, maxDepth) ==
  IF n > Len(S) THEN maxDepth
  ELSE IF S[n] = "{"
       THEN NestingFromUnfloored(S, n + 1, depth + 1,
                                 IF depth + 1 > maxDepth THEN depth + 1 ELSE maxDepth)
       ELSE IF S[n] = "}"
            THEN NestingFromUnfloored(S, n + 1, depth - 1, maxDepth)
            ELSE NestingFromUnfloored(S, n + 1, depth, maxDepth)

RECURSIVE NestingFrom(_, _, _, _)
NestingFrom(S, n, depth, maxDepth) ==
  IF n > Len(S) THEN maxDepth
  ELSE IF S[n] = "{"
       THEN NestingFrom(S, n + 1, depth + 1,
                        IF depth + 1 > maxDepth THEN depth + 1 ELSE maxDepth)
       ELSE IF S[n] = "}"
            THEN NestingFrom(S, n + 1, IF depth - 1 > 0 THEN depth - 1 ELSE 0, maxDepth)
            ELSE NestingFrom(S, n + 1, depth, maxDepth)

\* only the braces change the depth: the loop is run over them
countMaxNesting(src) == NestingFrom(SelectSeq(src, LAMBDA ch : ch \in {"{", "}"}), 1, 0, 0)

(***************************************************************************)
(* Regular expressions of the scanners.  Every scanner only calls          *)
(* RegExp.prototype.test, so what matters is whether some match exists;    *)
(* none of the patterns has a back-reference, so the set of positions at   *)
(* which a sub-pattern can end decides that exactly.  A pattern is a tree  *)
(* of nodes [t, set, neg, rs]:                                             *)
(*   "set"  one character in (neg: not in) set                             *)
(*   "lit"  the characters rs, a literal string                            *)
(*   "cat"  the children rs in sequence       "alt"  one of the children   *)
(*   "star" rs[1] zero or more times          "wb"   \b                    *)
(*   "nla"  negative lookahead (?!rs[1])                                   *)
(* The i flag is modelled by case-folding both the pattern's literals      *)
(* (StrI) and the tested line (TestI).                                     *)
(***************************************************************************)
Chars(str) == [n \in 1..Len(str) |-> SubSeq(str, n, n)]

Lowers == Chars("abcdefghijklmnopqrstuvwxyz")
Uppers == Chars("ABCDEFGHIJKLMNOPQRSTUVWXYZ")

UpperToLower == [u \in SetOf(Uppers) |-> Lowers[CHOOSE n \in 1..26 : Uppers[n] = u]]

Fold(ch) == IF ch \in DOMAIN UpperToLower THEN UpperToLower[ch] ELSE ch

FoldSeq(S) == [n \in 1..Len(S) |-> Fold(S[n])]

Node(t, set, neg, rs) == [t |-> t, set |-> set, neg |-> neg, rs |-> rs]
In(set)    == Node("set", set, FALSE, << >>)
NotIn(set) == Node("set", set, TRUE, << >>)
Cat(rs)    == Node("cat", {}, FALSE, rs)
Alt(rs)    == Node("alt", {}, FALSE, rs)
Star(r)    == Node("star", {}, FALSE, << r >>)
Plus(r)    == Cat(<< r, Star(r) >>)
Opt(r)     == Alt(<< r, Cat(<< >>) >>)
NegLook(r) == Node("nla", {}, FALSE, << r >>)
WB         == Node("wb", {}, FALSE, << >>)
\* a literal string, and the same under the i flag
Str(str)   == Node("lit", {}, FALSE, Chars(str))
StrI(str)  == Node("lit", {}, FALSE, FoldSeq(Chars(str)))
Dot        == NotIn({LF, CR})
AnyChar    == NotIn({})
W          == In(WordChars)
S0         == Star(In(SpaceChars))
Quote      == In({"\"", "'"})

RECURSIVE Ends(_, _, _)
RECURSIVE CatEnds(_, _, _, _)
RECURSIVE StarEnds(_, _, _, _)
\* the positions e such that r matches S[i, e)
Ends(r, S, i) ==
  CASE r.t = "set"  -> IF i < Len(S) /\ ((CharAt(S, i) \in r.set) # r.neg)
                       THEN {i + 1} ELSE {}
    [] r.t = "lit"  -> IF /\ i + Len(r.rs) <= Len(S)
                          /\ \A n \in 1..Len(r.rs) : S[i + n] = r.rs[n]
                       THEN {i + Len(r.rs)} ELSE {}
    [] r.t = "cat"  -> CatEnds(r.rs, 1, S, {i})
    [] r.t = "alt"  -> UNION { Ends(r.rs[n], S, i) : n \in 1..Len(r.rs) }
    [] r.t = "star" -> StarEnds(r.rs[1], S, {i}, {i})
    [] r.t = "wb"   -> IF WordBoundary(S, i) THEN {i} ELSE {}
    [] r.t = "nla"  -> IF Ends(r.rs[1], S, i) = {} THEN {i} ELSE {}
CatEnds(rs, n, S, from) ==
  IF n > Len(rs) \/ from = {} THEN from
  ELSE CatEnds(rs, n + 1, S, UNION { Ends(rs[n], S, p) : p \in from })
StarEnds(r, S, frontier, seen) ==
  IF frontier = {} THEN seen
  ELSE LET nxt == (UNION { Ends(r, S, p) : p \in frontier }) \ seen
       IN  StarEnds(r, S, nxt, seen \cup nxt)

\* Character sets of which one at least is wholly contained in every text that r
\* matches (a literal needs its characters, a sequence what all its parts need, an
\* alternation what one of its branches needs).  Test uses it to skip the search
\* on a line that cannot match.
RECURSIVE Needs(_)
RECURSIVE CatNeeds(_, _, _)
Needs(r) ==
  CASE r.t = "lit" -> { SetOf(r.rs) }
    [] r.t = "set" -> IF ~r.neg /\ Cardinality(r.set) = 1 THEN { r.set } ELSE { {} }
    [] r.t = "cat" -> CatNeeds(r.rs, 1, { {} })
    [] r.t = "alt" -> UNION { Needs(r.rs[n]) : n \in 1..Len(r.rs) }
    [] OTHER       -> { {} }
CatNeeds(rs, n, acc) ==
  IF n > Len(rs) THEN acc
  ELSE CatNeeds(rs, n + 1, { a \cup b : a \in acc, b \in Needs(rs[n]) })

\* a pattern ready for test()
RegExp(r) == [re |-> r, needs |-> Needs(r)]

\* regex.test(line), present being the set of the characters of line; under the i
\* flag the line is tested case-folded
Test(rx, line, present) ==
  /\ \E need \in rx.needs : need \subseteq present
  /\ \E i \in 0..Len(line) : Ends(rx.re, line, i) # {}

(***************************************************************************)
(* The patterns, in the order of the source.                               *)
(***************************************************************************)
\* /password\s*=\s*["'][\w]+["']|api[_-]?key\s*=\s*["'][\w\-]+["']/i
ReCredentials == RegExp(
  Alt(<< Cat(<< StrI("password"), S0, In({"="}), S0, Quote, Plus(W), Quote >>),
         Cat(<< StrI("api"), Opt(In({"_", "-"})), StrI("key"), S0, In({"="}), S0,
                Quote, Plus(In(WordChars \cup {"-"})), Quote >>) >>))

\* /SELECT .* FROM .* \+ |"SELECT .*" \+|query\s*=\s*["'].* \+ /i
ReSqlInjection == RegExp(
  Alt(<< Cat(<< StrI("SELECT "), Star(Dot), StrI(" FROM "), Star(Dot), StrI(" + ") >>),
         Cat(<< StrI("\"SELECT "), Star(Dot), StrI("\" +") >>),
         Cat(<< StrI("query"), S0, In({"="}), S0, Quote, Star(Dot), StrI(" + ") >>) >>))

\* /exec\s*\(|system\s*\(|eval\s*\(|setTimeout\s*\(.*function/i
ReCodeInjection == RegExp(
  Alt(<< Cat(<< StrI("exec"), S0, In({"("}) >>),
         Cat(<< StrI("system"), S0, In({"("}) >>),
         Cat(<< StrI("eval"), S0, In({"("}) >>),
         Cat(<< StrI("setTimeout"), S0, In({"("}), Star(Dot), StrI("function") >>) >>))

\* /MD5|SHA1|DES\b|MD4|RC4/i
ReWeakCrypto == RegExp(
  Alt(<< StrI("MD5"), StrI("SHA1"), Cat(<< StrI("DES"), WB >>), StrI("MD4"), StrI("RC4") >>))

\* /Math\.random\(\)|Random\(\)|new Random\(/i
ReWeakRandom == RegExp(
  Alt(<< StrI("Math.random()"), StrI("Random()"), StrI("new Random(") >>))

\* /\w+\.\w+\s*(?!\=\=|\!\=)/
ReMemberAccess == RegExp(
  Cat(<< Plus(W), In({"."}), Plus(W), S0, NegLook(Alt(<< Str("=="), Str("!=") >>)) >>))

\* /if\s*\(.*\w+\s*(===|!==|==|!=)\s*null/
ReNullGuard == RegExp(
  Cat(<< Str("if"), S0, In({"("}), Star(Dot), Plus(W), S0,
         Alt(<< Str("==="), Str("!=="), Str("=="), Str("!=") >>), S0, Str("null") >>))

\* /\.length|\.size|\.get\(|\.set\(|\.push\(/
ReDereference == RegExp(
  Alt(<< Str(".length"), Str(".size"), Str(".get("), Str(".set("), Str(".push(") >>))

\* /new\s+(FileInputStream|FileOutputStream|BufferedReader|Connection|Statement)/i
ReResourceLeak == RegExp(
  Cat(<< StrI("new"), Plus(In(SpaceChars)),
         Alt(<< StrI("FileInputStream"), StrI("FileOutputStream"), StrI("BufferedReader"),
                StrI("Connection"), StrI("Statement") >>) >>))

\* /catch\s*\(\s*(Exception|Throwable|Error)\s*[),]|catch\s*\(\s*\w+\s*\)\s*\{\s*\}/i
ReBroadCatch == RegExp(
  Alt(<< Cat(<< StrI("catch"), S0, In({"("}), S0,
                Alt(<< StrI("Exception"), StrI("Throwable"), StrI("Error") >>),
                S0, In({")", ","}) >>),
         Cat(<< StrI("catch"), S0, In({"("}), S0, Plus(W), S0, In({")"}), S0,
                In({"{"}), S0, In({"}"}) >>) >>))

\* /\[\s*\w+\s*\-\s*1\s*\]|\[\s*length\s*\]/
ReBounds == RegExp(
  Alt(<< Cat(<< In({"["}), S0, Plus(W), S0, In({"-"}), S0, In({"1"}), S0, In({"]"}) >>),
         Cat(<< In({"["}), S0, Str("length"), S0, In({"]"}) >>) >>))

\* /for\s*\(.*\)\s*\{[\s\S]*\w+\s*\+=\s*["']|while\s*\(.*\)\s*\{[\s\S]*\w+\s*\+=\s*["']/i
ReStringConcat == RegExp(
  Alt(<< Cat(<< StrI("for"), S0, In({"("}), Star(Dot), In({")"}), S0, In({"{"}),
                Star(AnyChar), Plus(W), S0, Str("+="), S0, Quote >>),
         Cat(<< StrI("while"), S0, In({"("}), Star(Dot), In({")"}), S0, In({"{"}),
                Star(AnyChar), Plus(W), S0, Str("+="), S0, Quote >>) >>))

\* /for\s*\(.*for\s*\(|while\s*\(.*while\s*\(/i
ReNestedLoops == RegExp(
  Alt(<< Cat(<< StrI("for"), S0, In({"("}), Star(Dot), StrI("for"), S0, In({"("}) >>),
         Cat(<< StrI("while"), S0, In({"("}), Star(Dot), StrI("while"), S0, In({"("}) >>) >>))

\* /for\s*\(.*query|while\s*\(.*query|query.*for\s*\(/i
ReQueryInLoop == RegExp(
  Alt(<< Cat(<< StrI("for"), S0, In({"("}), Star(Dot), StrI("query") >>),
         Cat(<< StrI("while"), S0, In({"("}), Star(Dot), StrI("query") >>),
         Cat(<< StrI("query"), Star(Dot), StrI("for"), S0, In({"("}) >>) >>))

\* /TODO|FIXME/
ReTodo == RegExp(
  Alt(<< Str("TODO"), Str("FIXME") >>))

\* /\b(a|b|c|x|y|z|temp|tmp|foo|bar|baz)\b\s*=/
ReBadName == RegExp(
  Cat(<< WB,
         Alt(<< Str("a"), Str("b"), Str("c"), Str("x"), Str("y"), Str("z"), Str("temp"),
                Str("tmp"), Str("foo"), Str("bar"), Str("baz") >>),
         WB, S0, In({"="}) >>))

(***************************************************************************)
(* The scanners.  An issue is a record; an optional field that the code    *)
(* leaves out (line, snippet) is left out of the record.  Message texts    *)
(* are sequences of strings, so that a template such as                    *)
(* `High cyclomatic complexity ~${c} (threshold 40)` keeps its parts.      *)
(***************************************************************************)
\* src.split("\n")
SplitLines(src) ==
  LET breaks   == { n \in 1..Len(src) : src[n] = LF }
      \* the position of the m-th line feed; 0 before the first, Len + 1 after the last
      BreakAt(m) == IF m = 0 THEN 0
                    ELSE IF m > Cardinality(breaks) THEN Len(src) + 1
                    ELSE CHOOSE b \in breaks : Cardinality({ c \in breaks : c < b }) = m - 1
  IN  [m \in 1..(Cardinality(breaks) + 1) |-> SubSeq(src, BreakAt(m - 1) + 1, BreakAt(m) - 1)]

\* line.trim()
RECURSIVE TrimStart(_)
TrimStart(S) ==
  IF Len(S) > 0 /\ S[1] \in SpaceChars THEN TrimStart(Tail(S)) ELSE S
RECURSIVE TrimEnd(_)
TrimEnd(S) ==
  IF Len(S) > 0 /\ S[Len(S)] \in SpaceChars THEN TrimEnd(SubSeq(S, 1, Len(S) - 1)) ELSE S
Trim(S) == TrimEnd(TrimStart(S))

\* line.slice(0, n)
SliceTo(S, n) == SubSeq(S, 1, IF Len(S) < n THEN Len(S) ELSE n)

RECURSIVE ConcatAll(_)
ConcatAll(seqs) == IF Len(seqs) = 0 THEN << >> ELSE Head(seqs) \o ConcatAll(Tail(seqs))

\* the index of forEach taken as the line number (line: i in place of i + 1)
PatternIssueZeroBased(type, category, path, lineNum, severity, message, snippet, impact, remediation) ==
  [type |-> type, category |-> category, file |-> path, line |-> lineNum - 1,
   severity |-> severity, message |-> << message >>, snippet |-> snippet,
   impact |-> impact, remediation |-> remediation]

\* issues.push({ type, category, file: path, line: lineNum, ... })
PatternIssue(type, category, path, lineNum, severity, message, snippet, impact, remediation) ==
  [type |-> type, category |-> category, file |-> path, line |-> lineNum,
   severity |-> severity, message |-> << message >>, snippet |-> snippet,
   impact |-> impact, remediation |-> remediation]

When(cond, issue) == IF cond THEN << issue >> ELSE << >>

SecurityLine(line, lineNum, path) ==
  LET trimmed == Trim(line)
      present == SetOf(line)
      folded  == FoldSeq(line)
      presentFolded == SetOf(folded) IN
     When(Test(ReCredentials, folded, presentFolded),
          PatternIssue("SECURITY", "hardcoded-credentials", path, lineNum, "critical",
                       "Hardcoded credentials detected", trimmed,
                       "Credentials could be exposed in version control",
                       "Use environment variables or secure configuration"))
  \o When(Test(ReSqlInjection, folded, presentFolded),
          PatternIssue("SECURITY", "sql-injection", path, lineNum, "critical",
                       "Potential SQL injection vulnerability", trimmed,
                       "Could allow unauthorized database access",
                       "Use parameterized queries or prepared statements"))
  \o When(Test(ReCodeInjection, folded, presentFolded),
          PatternIssue("SECURITY", "code-injection", path, lineNum, "critical",
                       "Potential code injection vulnerability", trimmed,
                       "Could allow arbitrary code execution",
                       "Validate and sanitize all inputs, avoid dynamic code execution"))
  \o When(Test(ReWeakCrypto, folded, presentFolded),
          PatternIssue("SECURITY", "weak-cryptography", path, lineNum, "major",
                       "Weak cryptographic algorithm detected", trimmed,
                       "Cryptographic operations may be easily broken",
                       "Use SHA-256, SHA-3, AES, or other modern algorithms"))
  \o When(Test(ReWeakRandom, folded, presentFolded),
          PatternIssue("SECURITY", "weak-randomness", path, lineNum, "minor",
                       "Weak random number generation", trimmed,
                       "Predictable random values for security-sensitive operations",
                       "Use cryptographically secure random number generators"))

\* lines.forEach((line, i) => ...): the issues each line pushes, in line order
securityChecks(src, path) ==
  LET lines == SplitLines(src)
  IN  ConcatAll([n \in 1..Len(lines) |-> SecurityLine(lines[n], n, path)])

BugLine(line, lineNum, path) ==
  LET trimmed == Trim(line)
      present == SetOf(line)
      folded  == FoldSeq(line)
      presentFolded == SetOf(folded) IN
     When(Test(ReMemberAccess, line, present) /\ ~Test(ReNullGuard, line, present) /\ Test(ReDereference, line, present),
          PatternIssue("BUGS", "null-pointer", path, lineNum, "major",
                       "Potential null pointer dereference", trimmed,
                       "Runtime errors if object is null/undefined",
                       "Add null checks before accessing object properties"))
  \o When(Test(ReResourceLeak, folded, presentFolded),
          PatternIssue("BUGS", "resource-leak", path, lineNum, "major",
                       "Potential resource leak", trimmed,
                       "System resources may not be properly released",
                       "Use try-with-resources or ensure proper cleanup in finally blocks"))
  \o When(Test(ReBroadCatch, folded, presentFolded),
          PatternIssue("BUGS", "error-handling", path, lineNum, "major",
                       "Overly broad or empty exception handling", trimmed,
                       "Important errors may be silently ignored",
                       "Catch specific exceptions and handle them appropriately"))
  \o When(Test(ReBounds, line, present),
          PatternIssue("BUGS", "bounds-error", path, lineNum, "minor",
                       "Potential array bounds error", trimmed,
                       "Index out of bounds exceptions",
                       "Validate array indices before access"))

\* lines.forEach((line, i) => ...): the issues each line pushes, in line order
bugChecks(src, path) ==
  LET lines == SplitLines(src)
  IN  ConcatAll([n \in 1..Len(lines) |-> BugLine(lines[n], n, path)])

PerformanceLine(line, lineNum, path) ==
  LET trimmed == Trim(line)
      present == SetOf(line)
      folded  == FoldSeq(line)
      presentFolded == SetOf(folded) IN
     When(Test(ReStringConcat, folded, presentFolded),
          PatternIssue("PERFORMANCE", "string-concatenation", path, lineNum, "minor",
                       "String concatenation in loop", trimmed,
                       "Poor performance due to string immutability",
                       "Use StringBuilder, StringBuffer, or array join"))
  \o When(Test(ReNestedLoops, folded, presentFolded),
          PatternIssue("PERFORMANCE", "nested-loops", path, lineNum, "minor",
                       "Nested loops detected", trimmed,
                       "Potential O(n^2) or higher complexity",
                       "Consider algorithmic improvements or caching"))
  \o When(Test(ReQueryInLoop, folded, presentFolded),
          PatternIssue("PERFORMANCE", "database-query", path, lineNum, "major",
                       "Database query in loop (N+1 problem)", trimmed,
                       "Excessive database calls leading to poor performance",
                       "Batch queries or use joins to fetch data in single call"))

\* lines.forEach((line, i) => ...): the issues each line pushes, in line order
performanceChecks(src, path) ==
  LET lines == SplitLines(src)
  IN  ConcatAll([n \in 1..Len(lines) |-> PerformanceLine(lines[n], n, path)])

LineLengthLimit == 140
SnippetLimit == 180

StyleLine(line, lineNum, path) ==
  LET trimmed == Trim(line)
      present == SetOf(line) IN
     When(Len(line) > LineLengthLimit,
          PatternIssue("STYLE", "line-length", path, lineNum, "minor",
                       "Line exceeds 140 characters", SliceTo(line, SnippetLimit),
                       "Reduced code readability",
                       "Break long lines into multiple lines"))
  \o When(Test(ReTodo, line, present),
          PatternIssue("STYLE", "technical-debt", path, lineNum, "info",
                       "TODO/FIXME comment found", trimmed,
                       "Incomplete or temporary code",
                       "Complete the implementation or create proper tickets"))
  \o When(Test(ReBadName, line, present),
          PatternIssue("STYLE", "naming", path, lineNum, "minor",
                       "Non-descriptive variable name", trimmed,
                       "Reduced code maintainability and readability",
                       "Use descriptive, meaningful variable names"))

\* lines.forEach((line, i) => ...): the issues each line pushes, in line order
styleChecks(src, path) ==
  LET lines == SplitLines(src)
  IN  ConcatAll([n \in 1..Len(lines) |-> StyleLine(lines[n], n, path)])

(***************************************************************************)
(* The complexity and nesting issues of analyzeFiles.                      *)
(***************************************************************************)
HighComplexity == 40
ElevatedComplexity == 20
DeepNesting == 5

\* the complexity issues with `>=` in both tests
ComplexityIssuesInclusive(path, c) ==
  IF c >= HighComplexity
  THEN << [type |-> "COMPLEXITY", category |-> "cyclomatic-complexity", file |-> path,
           severity |-> "major",
           message |-> << "High cyclomatic complexity ~", ToString(c), " (threshold 40)" >>,
           impact |-> "Code is difficult to understand, test, and maintain",
           remediation |-> "Break down into smaller functions, reduce conditional complexity"] >>
  ELSE IF c >= ElevatedComplexity
  THEN << [type |-> "COMPLEXITY", category |-> "cyclomatic-complexity", file |-> path,
           severity |-> "minor",
           message |-> << "Elevated complexity ~", ToString(c), " (threshold 20)" >>,
           impact |-> "Code complexity is getting high",
           remediation |-> "Consider refactoring to reduce complexity"] >>
  ELSE << >>

ComplexityIssues(path, c) ==
  IF c > HighComplexity
  THEN << [type |-> "COMPLEXITY", category |-> "cyclomatic-complexity", file |-> path,
           severity |-> "major",
           message |-> << "High cyclomatic complexity ~", ToString(c), " (threshold 40)" >>,
           impact |-> "Code is difficult to understand, test, and maintain",
           remediation |-> "Break down into smaller functions, reduce conditional complexity"] >>
  ELSE IF c > ElevatedComplexity
  THEN << [type |-> "COMPLEXITY", category |-> "cyclomatic-complexity", file |-> path,
           severity |-> "minor",
           message |-> << "Elevated complexity ~", ToString(c), " (threshold 20)" >>,
           impact |-> "Code complexity is getting high",
           remediation |-> "Consider refactoring to reduce complexity"] >>
  ELSE << >>

NestingIssues(path, nesting) ==
  IF nesting > DeepNesting
  THEN << [type |-> "COMPLEXITY", category |-> "nesting-depth", file |-> path,
           severity |-> "minor",
           message |-> << "Deep nesting level ", ToString(nesting), " (>5)" >>,
           impact |-> "Code is hard to read and understand",
           remediation |-> "Use early returns, extract methods, or guard clauses"] >>
  ELSE << >>

(***************************************************************************)
(* A JavaScript Map: the keys in insertion order and the value of each.    *)
(* Setting a key that is present keeps its position and replaces its value.*)
(***************************************************************************)
EmptyMap == [keys |-> << >>, val |-> << >>]

MapHas(m, key) == \E n \in 1..Len(m.keys) : m.keys[n] = key

\* a set that leaves the value of a key the map already has
MapSetKeepsFirst(m, key, v) ==
  [keys |-> IF MapHas(m, key) THEN m.keys ELSE Append(m.keys, key),
   val  |-> [kk \in SetOf(m.keys) \cup {key} |->
               IF kk = key /\ ~MapHas(m, key) THEN v ELSE m.val[kk]]]

\* Map.prototype.set: a new key goes to the end, a known key keeps its place
MapSet(m, key, v) ==
  [keys |-> IF MapHas(m, key) THEN m.keys ELSE Append(m.keys, key),
   val  |-> [kk \in SetOf(m.keys) \cup {key} |-> IF kk = key THEN v ELSE m.val[kk]]]

MapGet(m, key) == m.val[key]

(***************************************************************************)
(* Numbers of analyzeFiles.                                                *)
(***************************************************************************)
ShingleSize == 30
DefaultMaxPairs == 8000

\* the test `sim > 0.6`
AtLeastThresholdStrict(sim) == 5 * sim[1] > 3 * sim[2]

\* sim >= 0.6, on the quotient num / den (0.6 = 3 / 5; the double nearest to a
\* quotient below 3/5 with a denominator under 10^15 is below the double 0.6)
AtLeastThreshold(sim) == 5 * sim[1] >= 3 * sim[2]

\* Number(sim.toFixed(2)), in hundredths: the nearest hundredth, the larger one on a
\* tie (exact for the quotients of the model: a tie needs a denominator that is a
\* multiple of 8, and is then decided by the double's rounding only when it is a
\* multiple of 40)
ToFixed2(sim) == (200 * sim[1] + sim[2]) \div (2 * sim[2])

\* f.size || f.content.length: a missing size and a size of 0 are both falsy
HasSize(f) == "size" \in DOMAIN f
\* `f.content.length` alone: the size the caller gives is ignored
SizeOrLengthContentOnly(f) == Len(f.content)
SizeOrLength(f) == IF HasSize(f) /\ f.size # 0 THEN f.size ELSE Len(f.content)

\* opts?.maxPairs ?? 8000: opts is << >> when the argument is omitted
MaxPairsOf(o) == IF "maxPairs" \in DOMAIN o THEN o.maxPairs ELSE DefaultMaxPairs

DuplicateCluster(pathA, pathB, sim) ==
  [files |-> << pathA, pathB >>, similarity |-> ToFixed2(sim)]

\* the message holds sim.toFixed(2) as its number of hundredths
DuplicationIssue(pathA, pathB, sim) ==
  [type |-> "DUPLICATION", category |-> "code-duplication", file |-> pathA,
   severity |-> "minor",
   message |-> << "Near-duplicate with ", pathB, " (Jaccard ~ ", ToString(ToFixed2(sim)), "/100)" >>,
   impact |-> "Duplicated code increases maintenance burden",
   remediation |-> "Extract common code into shared functions or modules"]

\* the pushes of one iteration with the style scanner run before the others
PerFileIssuesStyleFirst(f, toks) ==
     ComplexityIssues(f.path, approxComplexity(toks))
  \o NestingIssues(f.path, countMaxNesting(f.content))
  \o styleChecks(f.content, f.path)
  \o securityChecks(f.content, f.path)
  \o bugChecks(f.content, f.path)
  \o performanceChecks(f.content, f.path)

\* everything one iteration of the per-file loop pushes, in the order of the pushes
PerFileIssues(f, toks) ==
     ComplexityIssues(f.path, approxComplexity(toks))
  \o NestingIssues(f.path, countMaxNesting(f.content))
  \o securityChecks(f.content, f.path)
  \o bugChecks(f.content, f.path)
  \o performanceChecks(f.content, f.path)
  \o styleChecks(f.content, f.path)

(***************************************************************************)
(* The inputs of the model.                                                *)
(***************************************************************************)
MaxFiles == 3
MaxBranchTokens == 41
MaxPairsOption == 1

Repeat(ch, n) == [m \in 1..n |-> ch]

\* n question marks, an opening brace, m question marks: n + m + 1 tokens, and for
\* n, m <= 29 the windows of 30 tokens that hold the brace at offsets 29-m .. n
Marked(n, m) == Repeat("?", n) \o << "{" >> \o Repeat("?", m)

PathNames == << "a.ts", "b.ts", "c.ts", "d.ts", "e.ts" >>

\* The paths of a batch of n files up to renaming: file m has a path of an earlier
\* file or the next unused name (analyzeFiles only compares paths for equality).
PathPatterns(n) ==
  { ps \in [1..n -> 1..n] :
      \A m \in 1..n : \A v \in 1..(ps[m] - 1) : \E u \in 1..(m - 1) : ps[u] = v }

\* 33, 33 and 30 tokens: 4, 4 and 1 windows of 30 tokens; the first two share 3
\* of their 5 windows (similarity 0.6), the third shares its window with each of
\* them (similarity 1/4)
DuplicateContents ==
  { Marked(20, 12), Marked(21, 11), Marked(20, 9) }

DuplicateBatches ==
  UNION { { [m \in 1..n |-> [path |-> PathNames[ps[m]], content |-> cs[m], size |-> Len(cs[m])]] :
              ps \in PathPatterns(n), cs \in [1..n -> DuplicateContents] } : n \in 0..MaxFiles }

\* sizes given, zero and left out, on a short file with an unclosed brace, and an empty file
StatsFiles ==
  { [path |-> "a.ts", content |-> Chars("if (a) {\n"), size |-> sz] : sz \in {0, 10, 20, 30} }
  \cup { [path |-> "a.ts", content |-> Chars("if (a) {\n")],
         [path |-> "a.ts", content |-> << >>, size |-> 0] }

StatsBatches == UNION { [1..n -> StatsFiles] : n \in 0..MaxFiles }

ThresholdBatches ==
  { << [path |-> "a.ts", content |-> Repeat("?", n), size |-> n] >> : n \in 0..MaxBranchTokens }

\* files under pairwise distinct paths, some of them below 30 tokens (no tokens
\* at all, two tokens) and one with 33
ShortContents == { << >>, Chars("?}"), Marked(20, 12) }

ShortBatches ==
  UNION { { [m \in 1..n |-> [path |-> PathNames[m], content |-> cs[m], size |-> Len(cs[m])]] :
              cs \in [1..n -> ShortContents] } : n \in 0..MaxFiles }

\* lines that the scanners flag (credentials; a dereference, a marker comment and
\* a short name; nested loops) and lines they do not
PasswordLine == Chars("const password = \"hunter2\";")

ScannerLines ==
  { PasswordLine,
    Chars("x = a.length // TODO"),
    Chars("for (a) { for (b) { q(); } }"),
    Chars("password = hunter2"),
    << >> }

MaxLines == 2

\* lines.join("\n")
RECURSIVE JoinLines(_)
JoinLines(lines) ==
  IF Len(lines) = 0 THEN << >>
  ELSE IF Len(lines) = 1 THEN lines[1]
       ELSE lines[1] \o << LF >> \o JoinLines(Tail(lines))

ScannerContents == UNION { { JoinLines(ls) : ls \in [1..n -> ScannerLines] } : n \in 1..MaxLines }

\* one file of up to MaxLines lines, or two files of one line each
ScannerBatches ==
  { << [path |-> "a.ts", content |-> c, size |-> Len(c)] >> : c \in ScannerContents }
  \cup { << [path |-> "a.ts", content |-> ca, size |-> Len(ca)],
            [path |-> "b.ts", content |-> cb, size |-> Len(cb)] >> :
           ca \in ScannerLines, cb \in ScannerLines }

\* one line of 139, 140 or 141 characters, ended by nothing, by LF or by CR LF
LongLineBatches ==
  { << [path |-> "a.ts", content |-> Repeat("q", n) \o ending, size |-> n + Len(ending)] >> :
       n \in (LineLengthLimit - 1)..(LineLengthLimit + 1),
       ending \in { << >>, << LF >>, << CR, LF >> } }

\* one file of braces only: depths 5 and 6, closing braces before any opening
\* one, and blocks that close and open again
NestingContents ==
  { Chars("{{{{{"), Chars("{{{{{{"), Chars("}}{{{{{{"), Chars("{}{}{}{}{}{}"),
    Chars("{{{}}{{{{"), Chars("{{{{{}{"), Chars("{{{{{}{{") }

NestingBatches ==
  { << [path |-> "a.ts", content |-> c, size |-> Len(c)] >> : c \in NestingContents }

Batches ==
  DuplicateBatches \cup StatsBatches \cup ThresholdBatches
    \cup ShortBatches \cup ScannerBatches \cup LongLineBatches \cup NestingBatches

OptionChoices == { << >> } \cup { [maxPairs |-> n] : n \in 0..MaxPairsOption }

(***************************************************************************)
(* The inputs of the calls of single functions: every string of at most    *)
(* MaxSrcLen characters over an alphabet with two letters (the keyword     *)
(* "if"), white space, the operator characters of BRANCH_TOKENS and a      *)
(* character that is neither a word character nor a separator.             *)
(***************************************************************************)
MaxSrcLen == 4
MaxK == 3

SrcAlphabet == { "i", "f", SP, LF, CR, "&", "|", "?", "#" }

SrcStrings == UNION { [1..n -> SrcAlphabet] : n \in 0..MaxSrcLen }

NoCall == [fn |-> "none", src |-> << >>, k |-> 0, tokens |-> << >>, result |-> << >>]

(***************************************************************************)
(* analyzeFiles as a state machine.                                        *)
(***************************************************************************)
VARIABLES
  call,               \* a call of one exported or local function on its own
  files,              \* the argument files
  opts,               \* the argument opts, << >> when omitted
  pc,                 \* "perFile", "outer", "inner" or "done" (returned)
  fileIdx,            \* the number of files the per-file loop has finished
  issues, stats, tokenMap, shingleMap,
  paths, maxPairs, pairs, duplicateClusters,
  i, j,               \* the indexes of the pair loops, 0-based as in the source
  compared            \* history: the (i, j) on which jaccard was evaluated

vars == << call, files, opts, pc, fileIdx, issues, stats, tokenMap, shingleMap,
           paths, maxPairs, pairs, duplicateClusters, i, j, compared >>

\* the locals of the pair phase before their declaration is reached
PairLocalsUnset ==
  /\ paths = << >> /\ maxPairs = 0 /\ pairs = 0 /\ duplicateClusters = << >>
  /\ i = 0 /\ j = 0 /\ compared = << >>

Init ==
  /\ call = NoCall
  /\ files \in Batches
  /\ opts \in OptionChoices
  /\ pc = "perFile"
  /\ fileIdx = 0
  /\ issues = << >>
  /\ stats = [filesAnalyzed |-> 0, bytesAnalyzed |-> 0]
  /\ tokenMap = EmptyMap
  /\ shingleMap = EmptyMap
  /\ PairLocalsUnset

\* one iteration of `for (const f of files)`
PerFile ==
  /\ pc = "perFile"
  /\ fileIdx < Len(files)
  /\ LET f    == files[fileIdx + 1]
         toks == tokenize(f.content)
     IN  /\ stats' = [filesAnalyzed |-> stats.filesAnalyzed + 1,
                      bytesAnalyzed |-> stats.bytesAnalyzed + SizeOrLength(f)]
         /\ tokenMap' = MapSet(tokenMap, f.path, toks)
         /\ issues' = issues \o PerFileIssues(f, toks)
         /\ shingleMap' = MapSet(shingleMap, f.path, SetOf(shingles(toks, ShingleSize)))
  /\ fileIdx' = fileIdx + 1
  /\ UNCHANGED << call, files, opts, pc, paths, maxPairs, pairs, duplicateClusters, i, j, compared >>

\* the declarations before the pair loops
BeginPairs ==
  /\ pc = "perFile"
  /\ fileIdx = Len(files)
  /\ paths' = shingleMap.keys
  /\ maxPairs' = MaxPairsOf(opts)
  /\ pairs' = 0
  /\ duplicateClusters' = << >>
  /\ i' = 0
  /\ pc' = "outer"
  /\ UNCHANGED << call, files, opts, fileIdx, issues, stats, tokenMap, shingleMap, j, compared >>

\* the inner loop started at `j = 0`
OuterEnterFromZero ==
  /\ pc = "outer"
  /\ i < Len(paths)
  /\ j' = 0
  /\ pc' = "inner"
  /\ UNCHANGED << call, files, opts, fileIdx, issues, stats, tokenMap, shingleMap,
                  paths, maxPairs, pairs, duplicateClusters, i, compared >>

\* `i < paths.length` holds: enter the inner loop with j = i + 1
OuterEnter ==
  /\ pc = "outer"
  /\ i < Len(paths)
  /\ j' = i + 1
  /\ pc' = "inner"
  /\ UNCHANGED << call, files, opts, fileIdx, issues, stats, tokenMap, shingleMap,
                  paths, maxPairs, pairs, duplicateClusters, i, compared >>

\* `i < paths.length` fails: return { issues, duplicateClusters, stats }
Return ==
  /\ pc = "outer"
  /\ i >= Len(paths)
  /\ pc' = "done"
  /\ UNCHANGED << call, files, opts, fileIdx, issues, stats, tokenMap, shingleMap,
                  paths, maxPairs, pairs, duplicateClusters, i, j, compared >>

\* the end of the inner loop without the `i++` of the outer loop
InnerExitNoIncrement ==
  /\ pc = "inner"
  /\ j >= Len(paths)
  /\ pc' = "outer"
  /\ UNCHANGED << call, files, opts, fileIdx, issues, stats, tokenMap, shingleMap,
                  paths, maxPairs, pairs, duplicateClusters, i, j, compared >>

\* `j < paths.length` fails: i++
InnerExit ==
  /\ pc = "inner"
  /\ j >= Len(paths)
  /\ i' = i + 1
  /\ pc' = "outer"
  /\ UNCHANGED << call, files, opts, fileIdx, issues, stats, tokenMap, shingleMap,
                  paths, maxPairs, pairs, duplicateClusters, j, compared >>

\* `if (pairs++ > maxPairs) break;` taken: the inner loop ends, i++
BudgetBreak ==
  /\ pc = "inner"
  /\ j < Len(paths)
  /\ pairs > maxPairs
  /\ pairs' = pairs + 1
  /\ i' = i + 1
  /\ pc' = "outer"
  /\ UNCHANGED << call, files, opts, fileIdx, issues, stats, tokenMap, shingleMap,
                  paths, maxPairs, duplicateClusters, j, compared >>

\* the body of the inner loop past the budget test, then j++
ComparePair ==
  /\ pc = "inner"
  /\ j < Len(paths)
  /\ ~(pairs > maxPairs)
  /\ pairs' = pairs + 1
  /\ LET a   == MapGet(shingleMap, paths[i + 1])
         b   == MapGet(shingleMap, paths[j + 1])
         sim == jaccard(a, b)
     IN  IF AtLeastThreshold(sim)
         THEN /\ duplicateClusters' =
                   Append(duplicateClusters, DuplicateCluster(paths[i + 1], paths[j + 1], sim))
              /\ issues' = Append(issues, DuplicationIssue(paths[i + 1], paths[j + 1], sim))
         ELSE UNCHANGED << duplicateClusters, issues >>
  /\ compared' = Append(compared, << i, j >>)
  /\ j' = j + 1
  /\ UNCHANGED << call, files, opts, pc, fileIdx, stats, tokenMap, shingleMap, paths, maxPairs, i >>

Next ==
  \/ PerFile
  \/ BeginPairs
  \/ OuterEnter
  \/ Return
  \/ InnerExit
  \/ BudgetBreak
  \/ ComparePair

Spec == Init /\ [][Next]_vars

\* a step of the per-file loop seen on its counter alone, and the steps of the
\* pair phase
PerFileAdvance == pc = "perFile" /\ fileIdx < Len(files) /\ fileIdx' = fileIdx + 1
PairPhase == BeginPairs \/ OuterEnter \/ Return \/ InnerExit \/ BudgetBreak \/ ComparePair

\* analyzeFiles is synchronous: once called, each loop runs on until its test fails
\* and the function returns
FairSpec == Spec /\ WF_fileIdx(PerFileAdvance) /\ WF_vars(PairPhase)

(***************************************************************************)
(* Calls of single functions, on every short string.                       *)
(***************************************************************************)
AnalyzerIdle ==
  /\ files = << >> /\ opts = << >> /\ pc = "idle" /\ fileIdx = 0
  /\ issues = << >> /\ stats = [filesAnalyzed |-> 0, bytesAnalyzed |-> 0]
  /\ tokenMap = EmptyMap /\ shingleMap = EmptyMap
  /\ PairLocalsUnset

analyzerVars == << files, opts, pc, fileIdx, issues, stats, tokenMap, shingleMap,
                   paths, maxPairs, pairs, duplicateClusters, i, j, compared >>

InitFn ==
  /\ AnalyzerIdle
  /\ \E s \in SrcStrings : call = [NoCall EXCEPT !.src = s]

\* tokenize(src)
CallTokenize ==
  /\ call.fn = "none"
  /\ call' = [call EXCEPT !.fn = "tokenize", !.result = tokenize(call.src)]
  /\ UNCHANGED analyzerVars

\* const toks = tokenize(f.content); const c = approxComplexity(toks);
CallComplexity ==
  /\ call.fn = "none"
  /\ call' = [call EXCEPT !.fn = "approxComplexity",
                          !.tokens = tokenize(call.src),
                          !.result = approxComplexity(tokenize(call.src))]
  /\ UNCHANGED analyzerVars

\* shingles(tokenize(src), k)
CallShingles ==
  /\ call.fn = "none"
  /\ \E kk \in 1..MaxK :
       call' = [call EXCEPT !.fn = "shingles", !.k = kk,
                            !.tokens = tokenize(call.src),
                            !.result = shingles(tokenize(call.src), kk)]
  /\ UNCHANGED analyzerVars

\* the text with every LF written as CR LF
RECURSIVE WithCrLf(_)
WithCrLf(S) ==
  IF Len(S) = 0 THEN << >>
  ELSE (IF Head(S) = LF THEN << CR, LF >> ELSE << Head(S) >>) \o WithCrLf(Tail(S))

\* tokenize(src) and tokenize of src with its line endings written as CR LF
CallTokenizeCrLf ==
  /\ call.fn = "none"
  /\ call' = [call EXCEPT !.fn = "tokenizeCrLf",
                          !.tokens = tokenize(call.src),
                          !.result = tokenize(WithCrLf(call.src))]
  /\ UNCHANGED analyzerVars

NextFn ==
  \/ CallTokenize
  \/ CallComplexity
  \/ CallShingles
  \/ CallTokenizeCrLf

SpecFn == InitFn /\ [][NextFn]_vars

(***************************************************************************)
(* Properties of the per-file loop.                                        *)
(***************************************************************************)
\* a step of the per-file loop, the file it handles and the issues it pushes
PerFileStep == pc = "perFile" /\ fileIdx' = fileIdx + 1
CurrentFile == files[fileIdx + 1]
PushedIssues == SubSeq(issues', Len(issues) + 1, Len(issues'))

IsCyclomatic(issue) == issue.category = "cyclomatic-complexity"
IsDuplication(issue) == issue.type = "DUPLICATION"

\* the number of tokens of a content that are branch tokens
BranchTokenCount(content) ==
  LET toks == tokenize(content)
  IN  Cardinality({ n \in 1..Len(toks) : toks[n] \in BRANCH_TOKENS })

OneCyclomatic(cyc, severity) ==
  /\ Len(cyc) = 1
  /\ cyc[1].type = "COMPLEXITY"
  /\ cyc[1].severity = severity

OneMajorThreshold40(cyc) ==
  /\ OneCyclomatic(cyc, "major")
  /\ cyc[1].message[Len(cyc[1].message)] = " (threshold 40)"

\* C1, as the claim states it: a file with 41 branch tokens gets one major
\* COMPLEXITY issue whose message names threshold 40, a file with 21 gets one
\* minor one, and a file with 20 gets no cyclomatic-complexity issue.
C1AsStated ==
  [][PerFileStep =>
       LET n   == BranchTokenCount(CurrentFile.content)
           cyc == SelectSeq(PushedIssues, IsCyclomatic)
       IN  /\ n = 41 => OneMajorThreshold40(cyc)
           /\ n = 21 => OneCyclomatic(cyc, "minor")
           /\ n = 20 => cyc = << >>]_vars

\* C1, amended: the score is the number of branch tokens plus 1, so 41 branch
\* tokens give one major issue that names threshold 40, 21 give one minor issue,
\* 20 give one minor issue too (score 21), and 19 or fewer give none.
C1Amended ==
  [][PerFileStep =>
       LET n   == BranchTokenCount(CurrentFile.content)
           cyc == SelectSeq(PushedIssues, IsCyclomatic)
       IN  /\ n = 41 => OneMajorThreshold40(cyc)
           /\ n = 21 => OneCyclomatic(cyc, "minor")
           /\ n = 20 => OneCyclomatic(cyc, "minor")
           /\ n <= 19 => cyc = << >>]_vars

\* C1, witness: the only file of a batch has 20 branch tokens and the loop has
\* pushed one minor cyclomatic-complexity issue for it.
C1Witness ==
  /\ Len(files) = 1
  /\ fileIdx = 1
  /\ BranchTokenCount(files[1].content) = 20
  /\ OneCyclomatic(SelectSeq(issues, IsCyclomatic), "minor")

\* C8: with c the score of the file of a step of the per-file loop, the step
\* pushes exactly one cyclomatic-complexity issue, of severity major, when c > 40,
\* exactly one, of severity minor, when 20 < c <= 40, none when c <= 20, and never
\* a major and a minor one together.
C8Thresholds ==
  [][PerFileStep =>
       LET c      == approxComplexity(tokenize(CurrentFile.content))
           cyc    == SelectSeq(PushedIssues, IsCyclomatic)
           majors == SelectSeq(cyc, LAMBDA x : x.severity = "major")
           minors == SelectSeq(cyc, LAMBDA x : x.severity = "minor")
       IN  /\ c > 40 => OneCyclomatic(cyc, "major")
           /\ (20 < c /\ c <= 40) => OneCyclomatic(cyc, "minor")
           /\ c <= 20 => cyc = << >>
           /\ ~(Len(majors) > 0 /\ Len(minors) > 0)]_vars

\* C8, witness: a file of score 40 has got its one minor issue, at the upper end
\* of the range (20, 40]
C8Witness ==
  /\ Len(files) = 1
  /\ fileIdx = 1
  /\ approxComplexity(tokenize(files[1].content)) = 40
  /\ OneCyclomatic(SelectSeq(issues, IsCyclomatic), "minor")

\* the sum of the sizes of the first n files, the length of the content standing
\* in for a size that is 0 or missing
RECURSIVE SizeSum(_, _)
SizeSum(fs, n) ==
  IF n = 0 THEN 0
  ELSE SizeSum(fs, n - 1)
       + (IF "size" \in DOMAIN fs[n] /\ fs[n].size # 0 THEN fs[n].size ELSE Len(fs[n].content))

\* C7: when analyzeFiles has returned, stats.filesAnalyzed is the number of files
\* of the batch and stats.bytesAnalyzed the sum of their sizes, the content length
\* standing in for a size that is 0 or missing.
C7Stats ==
  pc = "done" =>
    /\ stats.filesAnalyzed = Len(files)
    /\ stats.bytesAnalyzed = SizeSum(files, Len(files))

\* C7, witness: three files of sizes 10, 20 and 30 gave 3 files and 60 bytes
C7Witness ==
  /\ pc = "done"
  /\ Len(files) = 3
  /\ \A n \in 1..3 : "size" \in DOMAIN files[n] /\ files[n].size = 10 * n
  /\ stats = [filesAnalyzed |-> 3, bytesAnalyzed |-> 60]

(***************************************************************************)
(* Properties of the pair loops.                                           *)
(***************************************************************************)
\* C2, as the claim states it: when the N files of the batch make more than
\* maxPairs pairs (N * (N - 1) / 2 > maxPairs), jaccard is evaluated on at most
\* maxPairs of them (8000 when the option is omitted).
C2PairBudget ==
  Len(files) * (Len(files) - 1) > 2 * MaxPairsOf(opts) =>
    Len(compared) <= MaxPairsOf(opts)

\* the test `sim >= 0.6` on the shingle sets of the paths at 0-based indexes a
\* and b, from the cardinalities of their intersection and union
SimilarPaths(a, b) ==
  LET sa == shingleMap.val[paths[a + 1]]
      sb == shingleMap.val[paths[b + 1]]
  IN  /\ sa \cup sb # {}
      /\ 5 * Cardinality(sa \cap sb) >= 3 * Cardinality(sa \cup sb)

\* C4: every compared pair has i < j and is compared once; the clusters are, in
\* order, the compared pairs of similarity >= 0.6, each with files = [path_i,
\* path_j], and no others; the DUPLICATION issues are as many as the clusters, the
\* n-th with file = path_i and a message that names path_j.
C4ClusterPerPair ==
  LET hits == SelectSeq(compared, LAMBDA pr : SimilarPaths(pr[1], pr[2]))
      dups == SelectSeq(issues, IsDuplication)
  IN  /\ \A n \in 1..Len(compared) : compared[n][1] < compared[n][2]
      /\ \A n, m \in 1..Len(compared) : n # m => compared[n] # compared[m]
      /\ Len(duplicateClusters) = Len(hits)
      /\ Len(dups) = Len(duplicateClusters)
      /\ \A n \in 1..Len(hits) :
           /\ duplicateClusters[n].files = << paths[hits[n][1] + 1], paths[hits[n][2] + 1] >>
           /\ dups[n].file = paths[hits[n][1] + 1]
           /\ dups[n].message[2] = paths[hits[n][2] + 1]

\* C4, witness: three pairs were compared, one of similarity exactly 0.6 (a
\* cluster) and two below it (no cluster)
C4Witness ==
  /\ pc = "done"
  /\ Len(compared) = 3
  /\ Len(duplicateClusters) = 1
  /\ duplicateClusters[1].similarity = 60

\* C5: a batch of two files with distinct paths and the same content of at least
\* 30 tokens returns exactly one cluster, of similarity 1 (100 hundredths), and
\* exactly one DUPLICATION issue.
C5IdenticalFiles ==
  ( /\ pc = "done"
    /\ Len(files) = 2
    /\ files[1].path # files[2].path
    /\ files[1].content = files[2].content
    /\ Len(tokenize(files[1].content)) >= 30 ) =>
      /\ Len(duplicateClusters) = 1
      /\ duplicateClusters[1].similarity = 100
      /\ Len(SelectSeq(issues, IsDuplication)) = 1

\* C5, witness: two files of the same 33 tokens under two paths, and their cluster
C5Witness ==
  /\ pc = "done"
  /\ Len(files) = 2
  /\ files[1].path # files[2].path
  /\ files[1].content = files[2].content
  /\ Len(tokenize(files[1].content)) = 33
  /\ duplicateClusters = << [files |-> << files[1].path, files[2].path >>, similarity |-> 100] >>

\* C6: analyzeFiles returns, on every batch: the empty batch, files of empty
\* content, files of fewer than 30 tokens, files with unbalanced braces, ...
C6Terminates == <>(pc = "done")

BraceBalance(content) ==
  Cardinality({ n \in 1..Len(content) : content[n] = "{" })
    - Cardinality({ n \in 1..Len(content) : content[n] = "}" })

\* C6, witness: analyzeFiles has returned on a batch with a file of empty content
\* and a file of fewer than 30 tokens whose brace is never closed
C6Witness ==
  /\ pc = "done"
  /\ \E n \in 1..Len(files) : files[n].content = << >>
  /\ \E n \in 1..Len(files) :
       /\ BraceBalance(files[n].content) > 0
       /\ Len(tokenize(files[n].content)) < 30
  /\ stats.filesAnalyzed = Len(files)

(***************************************************************************)
(* Properties of the functions called on their own.                        *)
(***************************************************************************)
IsBlank(tok) == \A n \in 1..Len(tok) : tok[n] \in SpaceChars

\* C3, as the claim states it: tokenize returns no empty token and no token made
\* of white space only.
C3NoBlankToken ==
  call.fn = "tokenize" => \A n \in 1..Len(call.result) : ~IsBlank(call.result[n])

\* the occurrences of the two-character operator op op in src, left to right and
\* not overlapping
RECURSIVE DoubledFrom(_, _, _)
DoubledFrom(src, op, n) ==
  IF n + 1 > Len(src) THEN 0
  ELSE IF src[n] = op /\ src[n + 1] = op THEN 1 + DoubledFrom(src, op, n + 2)
       ELSE DoubledFrom(src, op, n + 1)

\* the occurrences of the keywords of BRANCH_TOKENS in src as whole words
KeywordOccurrences(src) ==
  Cardinality(
    { pr \in (1..Len(src)) \X { t \in BRANCH_TOKENS : \A n \in 1..Len(t) : IsWordChar(t[n]) } :
        LET from == pr[1]
            to   == pr[1] + Len(pr[2]) - 1
        IN  /\ to <= Len(src)
            /\ SubSeq(src, from, to) = pr[2]
            /\ from = 1 \/ ~IsWordChar(src[from - 1])
            /\ to = Len(src) \/ ~IsWordChar(src[to + 1]) })

\* C9, as the claim states it: the score of a content is 1 plus the number of the
\* occurrences in it of `&&`, `||`, `?` and the keywords of BRANCH_TOKENS.
C9ScoreCountsOperators ==
  call.fn = "approxComplexity" =>
    call.result = 1 + DoubledFrom(call.src, "&", 1) + DoubledFrom(call.src, "|", 1)
                    + Cardinality({ n \in 1..Len(call.src) : call.src[n] = "?" })
                    + KeywordOccurrences(call.src)

\* the window of k tokens from the 1-based index n, joined by single spaces
RECURSIVE Window(_, _, _)
Window(toks, n, k) ==
  IF k = 1 THEN toks[n] ELSE toks[n] \o << " " >> \o Window(toks, n + 1, k - 1)

\* C10: shingles(tokens, k) is empty when tokens.length < k and otherwise holds,
\* in order, the window of k tokens from every index 0..tokens.length-k, joined by
\* single spaces; the set made of them has between 1 and tokens.length-k+1
\* members.
C10Shingles ==
  call.fn = "shingles" =>
    LET L == Len(call.tokens)
    IN  IF L < call.k
        THEN call.result = << >>
        ELSE /\ Len(call.result) = L - call.k + 1
             /\ \A n \in 1..(L - call.k + 1) : call.result[n] = Window(call.tokens, n, call.k)
             /\ Cardinality(SetOf(call.result)) >= 1
             /\ Cardinality(SetOf(call.result)) <= L - call.k + 1

\* C10, witness: three windows of two tokens each, two of them equal, so that the
\* set has fewer members than there are windows
C10Witness ==
  /\ call.fn = "shingles"
  /\ call.k = 2
  /\ Len(call.tokens) = 4
  /\ Len(call.result) = 3
  /\ Cardinality(SetOf(call.result)) = 2

(***************************************************************************)
(* Properties of short files.                                              *)
(***************************************************************************)
DistinctPaths == \A n, m \in 1..Len(files) : n # m => files[n].path # files[m].path

\* the paths that a cluster or a DUPLICATION issue names
ReportedPaths ==
  UNION { { duplicateClusters[n].files[1], duplicateClusters[n].files[2] } :
            n \in 1..Len(duplicateClusters) }
  \cup UNION { { issues[n].file, issues[n].message[2] } :
                 n \in { m \in 1..Len(issues) : IsDuplication(issues[m]) } }

\* C11: in a batch of pairwise distinct paths, every file that a cluster or a
\* DUPLICATION issue names has at least 30 tokens.
C11ShortFilesNotReported ==
  DistinctPaths =>
    \A n \in 1..Len(files) :
      files[n].path \in ReportedPaths => Len(tokenize(files[n].content)) >= 30

\* C11, witness: a file without tokens, a file of two tokens and a file of 33
\* tokens were compared pair by pair and nothing was reported
C11Witness ==
  /\ pc = "done"
  /\ Len(files) = 3
  /\ DistinctPaths
  /\ Len(tokenize(files[1].content)) = 0
  /\ Len(tokenize(files[2].content)) = 2
  /\ Len(tokenize(files[3].content)) = 33
  /\ Len(compared) = 3
  /\ duplicateClusters = << >>
  /\ SelectSeq(issues, IsDuplication) = << >>

(***************************************************************************)
(* Calls of jaccard on every two sets of at most MaxShingles shingles.     *)
(***************************************************************************)
MaxShingles == 3

ShingleUniverse == { Repeat("?", n) : n \in 1..MaxShingles }

NoSetCall == [fn |-> "none", a |-> {}, b |-> {}, result |-> << 0, 1 >>, reversed |-> << 0, 1 >>]

InitSets ==
  /\ AnalyzerIdle
  /\ \E sa \in SUBSET ShingleUniverse : \E sb \in SUBSET ShingleUniverse :
       call = [NoSetCall EXCEPT !.a = sa, !.b = sb]

\* jaccard(a, b), then jaccard(b, a)
CallJaccard ==
  /\ call.fn = "none"
  /\ call' = [call EXCEPT !.fn = "jaccard",
                          !.result = jaccard(call.a, call.b),
                          !.reversed = jaccard(call.b, call.a)]
  /\ UNCHANGED analyzerVars

NextSets == CallJaccard

SpecSets == InitSets /\ [][NextSets]_vars

\* C12: jaccard(A, B) is |A n B| / |A u B| when A and B are not both empty and 0
\* when they are, and lies in [0, 1].
C12JaccardQuotient ==
  call.fn = "jaccard" =>
    LET r     == call.result
        inter == Cardinality(call.a \cap call.b)
        union == Cardinality(call.a \cup call.b)
    IN  /\ r[2] > 0
        /\ 0 <= r[1] /\ r[1] <= r[2]
        /\ union = 0 => r[1] = 0
        /\ union > 0 => r[1] * union = inter * r[2]

\* C12, witness: two sets of two shingles that share one: 1/3
C12Witness ==
  /\ call.fn = "jaccard"
  /\ Cardinality(call.a) = 2 /\ Cardinality(call.b) = 2
  /\ Cardinality(call.a \cap call.b) = 1
  /\ 3 * call.result[1] = call.result[2]

\* C13: jaccard(A, B) = jaccard(B, A).
C13JaccardSymmetric ==
  call.fn = "jaccard" =>
    call.result[1] * call.reversed[2] = call.reversed[1] * call.result[2]

\* C13, witness: sets of different sizes that share a shingle, in both orders
C13Witness ==
  /\ call.fn = "jaccard"
  /\ Cardinality(call.a) = 1 /\ Cardinality(call.b) = 3
  /\ call.a \subseteq call.b
  /\ call.result = << 1, 3 >>
  /\ call.reversed = << 1, 3 >>

\* C14: jaccard(A, A) = 1 for every non-empty A.
C14JaccardReflexive ==
  (call.fn = "jaccard" /\ call.a = call.b /\ call.a # {}) =>
    call.result[1] = call.result[2] /\ call.result[2] > 0

\* C14, witness: a set of two shingles against itself
C14Witness ==
  /\ call.fn = "jaccard"
  /\ call.a = call.b
  /\ Cardinality(call.a) = 2
  /\ call.result = << 2, 2 >>

(***************************************************************************)
(* Two successive calls of analyzeFiles with the same arguments.  issues,  *)
(* stats, tokenMap, shingleMap and the locals of the pair phase are        *)
(* declared in the function body: each call starts with new ones.  The     *)
(* regular expressions are literals without the g or y flag inside test(), *)
(* and BRANCH_TOKENS is never written.                                     *)
(***************************************************************************)
TwiceBatches == ShortBatches \cup ScannerBatches

InitTwice ==
  /\ call = NoCall
  /\ files \in TwiceBatches
  /\ opts \in OptionChoices
  /\ pc = "perFile"
  /\ fileIdx = 0
  /\ issues = << >>
  /\ stats = [filesAnalyzed |-> 0, bytesAnalyzed |-> 0]
  /\ tokenMap = EmptyMap
  /\ shingleMap = EmptyMap
  /\ PairLocalsUnset

\* the second call keeps the summary of the first and leaves nothing else of it
SecondCallKeepsIssues ==
  /\ pc = "done"
  /\ call.fn = "none"
  /\ call' = [fn |-> "analyzeFiles",
              result |-> [issues |-> issues, duplicateClusters |-> duplicateClusters,
                          stats |-> stats]]
  /\ pc' = "perFile"
  /\ fileIdx' = 0
  /\ issues' = issues
  /\ stats' = [filesAnalyzed |-> 0, bytesAnalyzed |-> 0]
  /\ tokenMap' = EmptyMap
  /\ shingleMap' = EmptyMap
  /\ paths' = << >> /\ maxPairs' = 0 /\ pairs' = 0 /\ duplicateClusters' = << >>
  /\ i' = 0 /\ j' = 0 /\ compared' = << >>
  /\ UNCHANGED << files, opts >>

\* the caller keeps the summary returned and calls analyzeFiles(files, opts) again
SecondCall ==
  /\ pc = "done"
  /\ call.fn = "none"
  /\ call' = [fn |-> "analyzeFiles",
              result |-> [issues |-> issues, duplicateClusters |-> duplicateClusters,
                          stats |-> stats]]
  /\ pc' = "perFile"
  /\ fileIdx' = 0
  /\ issues' = << >>
  /\ stats' = [filesAnalyzed |-> 0, bytesAnalyzed |-> 0]
  /\ tokenMap' = EmptyMap
  /\ shingleMap' = EmptyMap
  /\ paths' = << >> /\ maxPairs' = 0 /\ pairs' = 0 /\ duplicateClusters' = << >>
  /\ i' = 0 /\ j' = 0 /\ compared' = << >>
  /\ UNCHANGED << files, opts >>

NextTwice ==
  \/ PerFile
  \/ BeginPairs
  \/ OuterEnter
  \/ Return
  \/ InnerExit
  \/ BudgetBreak
  \/ ComparePair
  \/ SecondCall

SpecTwice == InitTwice /\ [][NextTwice]_vars

ScannerRank(issue) ==
  CASE issue.category = "cyclomatic-complexity" -> 1
    [] issue.category = "nesting-depth"         -> 2
    [] issue.type = "SECURITY"                  -> 3
    [] issue.type = "BUGS"                      -> 4
    [] issue.type = "PERFORMANCE"               -> 5
    [] issue.type = "STYLE"                     -> 6
    [] OTHER                                    -> 7

\* C16: an iteration of the per-file loop appends its issues after those of the
\* files before it; all of them name its file; they come in the order complexity
\* score, nesting, security, bugs, performance, style, and those of one scanner
\* in non-decreasing line number.  The pair phase leaves the per-file issues as
\* they are.
C16IssueOrder ==
  [][ /\ PerFileStep =>
           LET new == PushedIssues
           IN  /\ SubSeq(issues', 1, Len(issues)) = issues
               /\ \A n \in 1..Len(new) :
                    new[n].file = CurrentFile.path /\ ScannerRank(new[n]) <= 6
               /\ \A n, m \in 1..Len(new) :
                    n < m => /\ ScannerRank(new[n]) <= ScannerRank(new[m])
                             /\ (ScannerRank(new[n]) = ScannerRank(new[m])
                                   /\ ScannerRank(new[n]) >= 3)
                                  => new[n].line <= new[m].line
      /\ ~PerFileStep =>
           SelectSeq(issues', LAMBDA x : ~IsDuplication(x))
             = SelectSeq(issues, LAMBDA x : ~IsDuplication(x)) ]_vars

\* C16, witness: a file of two lines, each flagged by the bug scanner and twice by
\* the style scanner: bugs of lines 1 and 2, then style of lines 1, 1, 2 and 2
C16Witness ==
  /\ Len(files) = 1
  /\ fileIdx = 1
  /\ Len(issues) = 6
  /\ [n \in 1..6 |-> << issues[n].type, issues[n].line >>]
       = << << "BUGS", 1 >>, << "BUGS", 2 >>, << "STYLE", 1 >>, << "STYLE", 1 >>,
            << "STYLE", 2 >>, << "STYLE", 2 >> >>

\* the 1-based place of the pair (a, b), 0 <= a < b < n, in the lexicographic
\* order of the pairs over n positions
LexIndex(a, b, n) == a * n - (a * (a + 1)) \div 2 + (b - a)

PositionOf(path) == CHOOSE n \in 1..Len(paths) : paths[n] = path

\* C17: the pairs compared are, in order, the first pairs (i, j), i < j, of the
\* lexicographic order over the positions of the files (of the paths, in the order
\* of their first file, when paths repeat); the clusters follow that order too.
C17PairOrder ==
  /\ (DistinctPaths /\ pc # "perFile") =>
       paths = [n \in 1..Len(files) |-> files[n].path]
  /\ \A n \in 1..Len(compared) :
       /\ 0 <= compared[n][1] /\ compared[n][1] < compared[n][2]
       /\ compared[n][2] < Len(paths)
       /\ LexIndex(compared[n][1], compared[n][2], Len(paths)) = n
  /\ \A n, m \in 1..Len(duplicateClusters) :
       n < m =>
         LexIndex(PositionOf(duplicateClusters[n].files[1]) - 1,
                  PositionOf(duplicateClusters[n].files[2]) - 1, Len(paths))
           < LexIndex(PositionOf(duplicateClusters[m].files[1]) - 1,
                      PositionOf(duplicateClusters[m].files[2]) - 1, Len(paths))

\* C17, witness: three files of the same content and maxPairs = 1: pairs (0, 1)
\* and (0, 2) were compared and reported in that order, pair (1, 2) was skipped
C17Witness ==
  /\ pc = "done"
  /\ Len(paths) = 3
  /\ compared = << << 0, 1 >>, << 0, 2 >> >>
  /\ Len(duplicateClusters) = 2
  /\ duplicateClusters[1].files = << paths[1], paths[2] >>
  /\ duplicateClusters[2].files = << paths[1], paths[3] >>

(***************************************************************************)
(* Properties of the line endings.                                         *)
(***************************************************************************)
\* every line ending of the text is a bare LF: no LF follows a CR
BareLineEndings(S) == \A n \in 1..(Len(S) - 1) : ~(S[n] = CR /\ S[n + 1] = LF)

\* C18: a text whose line endings are bare LF and the same text with every LF
\* written as CR LF have the same tokens (hence the same shingles).
C18CrLfTokens ==
  (call.fn = "tokenizeCrLf" /\ BareLineEndings(call.src)) =>
    call.result = call.tokens

\* C18, witness: a text of two words on two lines, each ended by LF, tokenized
\* with CR LF endings to the same four tokens
C18Witness ==
  /\ call.fn = "tokenizeCrLf"
  /\ call.src = << "i", LF, "f", LF >>
  /\ call.result = << << "i" >>, << LF >>, << "f" >>, << LF >> >>
  /\ call.tokens = call.result

\* what C19 compares of an issue: its type, category, line and severity (an
\* issue of a whole file has no line: 0 stands for undefined)
Projected(list) ==
  [n \in 1..Len(list) |->
     [type |-> list[n].type, category |-> list[n].category,
      line |-> IF "line" \in DOMAIN list[n] THEN list[n].line ELSE 0,
      severity |-> list[n].severity]]

\* C19: the issues of a file (type, category, line, severity) are those of the
\* same content with every CR LF line ending written as LF; a line is flagged
\* for its length only if it has more than 140 characters without its terminator.
C19SameIssuesWithCrLf ==
  (Len(files) = 1 /\ fileIdx = 1) =>
    LET unix == ReplaceCrLf(files[1].content)
    IN  Projected(issues)
          = Projected(PerFileIssues([files[1] EXCEPT !.content = unix], tokenize(unix)))

(***************************************************************************)
(* The hard-coded credentials detector.                                    *)
(***************************************************************************)
IsCredentials(issue) == issue.category = "hardcoded-credentials"

\* the credentials issues pushed for line n of the file under a path
CredentialsAt(path, n) ==
  SelectSeq(issues, LAMBDA x : IsCredentials(x) /\ x.file = path /\ x.line = n)

\* either alternative of the pattern needs an "=" and a quoted value
NoQuotedAssignment(line) ==
  "=" \notin SetOf(line) \/ SetOf(line) \cap { "\"", "'" } = {}

\* C20: line n of an analyzed file that reads const password = "hunter2"; gets
\* exactly one issue SECURITY / hardcoded-credentials, critical, with line n;
\* a line without a quoted assignment gets no such issue.
C20HardcodedPassword ==
  DistinctPaths =>
    \A m \in 1..fileIdx :
      LET lines == SplitLines(files[m].content)
      IN  \A n \in 1..Len(lines) :
            LET found == CredentialsAt(files[m].path, n)
            IN  /\ lines[n] = PasswordLine =>
                     /\ Len(found) = 1
                     /\ found[1].type = "SECURITY"
                     /\ found[1].severity = "critical"
                /\ NoQuotedAssignment(lines[n]) => found = << >>

\* C20, witness: password = hunter2 on line 1 and the quoted assignment on line
\* 2: one credentials issue, critical, on line 2
C20Witness ==
  /\ Len(files) = 1
  /\ fileIdx = 1
  /\ files[1].content = JoinLines(<< Chars("password = hunter2"), PasswordLine >>)
  /\ Len(SelectSeq(issues, IsCredentials)) = 1
  /\ Len(CredentialsAt(files[1].path, 2)) = 1
  /\ CredentialsAt(files[1].path, 2)[1].severity = "critical"

(***************************************************************************)
(* The nesting depth.                                                      *)
(***************************************************************************)
\* the depth counter after the first n of the braces B: it starts at 0, goes up
\* on "{" and down on "}", never below 0
RECURSIVE DepthAfter(_, _)
DepthAfter(B, n) ==
  IF n = 0 THEN 0
  ELSE IF B[n] = "{" THEN DepthAfter(B, n - 1) + 1
       ELSE IF DepthAfter(B, n - 1) = 0 THEN 0 ELSE DepthAfter(B, n - 1) - 1

\* the maximum of the counter over all prefixes (characters other than braces
\* leave the counter as it is)
MaxPrefixDepth(content) ==
  LET B == SelectSeq(content, LAMBDA ch : ch = "{" \/ ch = "}")
  IN  CHOOSE d \in 0..Len(B) :
        /\ \E n \in 0..Len(B) : DepthAfter(B, n) = d
        /\ \A n \in 0..Len(B) : DepthAfter(B, n) <= d

IsNesting(issue) == issue.category = "nesting-depth"

\* C21: countMaxNesting of the file of a step of the per-file loop is the maximum
\* over all prefixes of the floored depth counter; the step pushes exactly one
\* nesting issue, of severity minor, when that maximum exceeds 5 and none otherwise.
C21NestingDepth ==
  [][PerFileStep =>
       LET d    == MaxPrefixDepth(CurrentFile.content)
           nest == SelectSeq(PushedIssues, IsNesting)
       IN  /\ countMaxNesting(CurrentFile.content) = d
           /\ d > 5 => (Len(nest) = 1 /\ nest[1].severity = "minor"
                                     /\ nest[1].file = CurrentFile.path)
           /\ d <= 5 => nest = << >>]_vars

\* C21, witness: two closing braces and then six opening ones: the counter stays
\* at 0 and then reaches 6, and the one issue has been pushed
C21Witness ==
  /\ Len(files) = 1
  /\ fileIdx = 1
  /\ files[1].content = Chars("}}{{{{{{")
  /\ MaxPrefixDepth(files[1].content) = 6
  /\ Len(SelectSeq(issues, IsNesting)) = 1

(***************************************************************************)
(* Two invocations of analyzeFiles in flight.  Every local of analyzeFiles *)
(* (part_004:344-347, 404-408) belongs to one invocation; the module has   *)
(* no variable that is written after loading (BRANCH_TOKENS is only read). *)
(* The variables hold the frame of the invocation that runs, call.other    *)
(* the frame of the suspended one.  The first invocation is run alone      *)
(* before, and its summary kept in call.result.                            *)
(***************************************************************************)
\* a file alone, two files of the same 33 tokens, and two of them after a short one
InterleavedBatches ==
  { << [path |-> "a.ts", content |-> PasswordLine, size |-> Len(PasswordLine)] >>,
    << [path |-> "a.ts", content |-> Marked(20, 12), size |-> 33],
       [path |-> "b.ts", content |-> Marked(20, 12), size |-> 33] >>,
    << [path |-> "a.ts", content |-> Chars("?}"), size |-> 2],
       [path |-> "b.ts", content |-> Marked(20, 12), size |-> 33],
       [path |-> "c.ts", content |-> Marked(20, 12), size |-> 33] >> }

\* the frame of an invocation: its arguments, its position and its locals
Frame(fl, op, at, idx, iss, st, tm, sm, ps, mp, pr, dc, oi, ij, cmp) ==
  [files |-> fl, opts |-> op, pc |-> at, fileIdx |-> idx, issues |-> iss, stats |-> st,
   tokenMap |-> tm, shingleMap |-> sm, paths |-> ps, maxPairs |-> mp, pairs |-> pr,
   duplicateClusters |-> dc, i |-> oi, j |-> ij, compared |-> cmp]

InitInterleaved ==
  /\ call = NoCall
  /\ files \in InterleavedBatches
  /\ opts \in OptionChoices
  /\ pc = "perFile"
  /\ fileIdx = 0
  /\ issues = << >>
  /\ stats = [filesAnalyzed |-> 0, bytesAnalyzed |-> 0]
  /\ tokenMap = EmptyMap
  /\ shingleMap = EmptyMap
  /\ PairLocalsUnset

\* the same invocation is made again, and another one on any batch and options
Interleave ==
  /\ pc = "done"
  /\ call.fn = "none"
  /\ \E otherFiles \in InterleavedBatches, otherOpts \in OptionChoices :
       call' = [fn |-> "analyzeFiles",
                result |-> [issues |-> issues, duplicateClusters |-> duplicateClusters,
                            stats |-> stats],
                running |-> 1,
                other |-> Frame(otherFiles, otherOpts, "perFile", 0, << >>,
                                [filesAnalyzed |-> 0, bytesAnalyzed |-> 0],
                                EmptyMap, EmptyMap, << >>, 0, 0, << >>, 0, 0, << >>)]
  /\ pc' = "perFile"
  /\ fileIdx' = 0
  /\ issues' = << >>
  /\ stats' = [filesAnalyzed |-> 0, bytesAnalyzed |-> 0]
  /\ tokenMap' = EmptyMap
  /\ shingleMap' = EmptyMap
  /\ paths' = << >> /\ maxPairs' = 0 /\ pairs' = 0 /\ duplicateClusters' = << >>
  /\ i' = 0 /\ j' = 0 /\ compared' = << >>
  /\ UNCHANGED << files, opts >>

\* one pairs counter for the module in place of `let pairs = 0` in each invocation
SwitchSharedPairs ==
  /\ call.fn = "analyzeFiles"
  /\ call' = [call EXCEPT !.running = 3 - @,
                          !.other = Frame(files, opts, pc, fileIdx, issues, stats, tokenMap,
                                          shingleMap, paths, maxPairs, pairs,
                                          duplicateClusters, i, j, compared)]
  /\ files' = call.other.files /\ opts' = call.other.opts /\ pc' = call.other.pc
  /\ fileIdx' = call.other.fileIdx /\ issues' = call.other.issues
  /\ stats' = call.other.stats /\ tokenMap' = call.other.tokenMap
  /\ shingleMap' = call.other.shingleMap /\ paths' = call.other.paths
  /\ maxPairs' = call.other.maxPairs /\ pairs' = pairs
  /\ duplicateClusters' = call.other.duplicateClusters
  /\ i' = call.other.i /\ j' = call.other.j /\ compared' = call.other.compared

\* the running invocation is suspended with its frame and the other one resumed
Switch ==
  /\ call.fn = "analyzeFiles"
  /\ call' = [call EXCEPT !.running = 3 - @,
                          !.other = Frame(files, opts, pc, fileIdx, issues, stats, tokenMap,
                                          shingleMap, paths, maxPairs, pairs,
                                          duplicateClusters, i, j, compared)]
  /\ files' = call.other.files /\ opts' = call.other.opts /\ pc' = call.other.pc
  /\ fileIdx' = call.other.fileIdx /\ issues' = call.other.issues
  /\ stats' = call.other.stats /\ tokenMap' = call.other.tokenMap
  /\ shingleMap' = call.other.shingleMap /\ paths' = call.other.paths
  /\ maxPairs' = call.other.maxPairs /\ pairs' = call.other.pairs
  /\ duplicateClusters' = call.other.duplicateClusters
  /\ i' = call.other.i /\ j' = call.other.j /\ compared' = call.other.compared

NextInterleaved ==
  \/ PerFile
  \/ BeginPairs
  \/ OuterEnter
  \/ Return
  \/ InnerExit
  \/ BudgetBreak
  \/ ComparePair
  \/ Interleave
  \/ Switch

SpecInterleaved == InitInterleaved /\ [][NextInterleaved]_vars

InitRoutes ==
  /\ AnalyzerIdle
  /\ call = [fn |-> "none"]

(***************************************************************************)
(* What the handlers with an LLM step send out, for two requests that      *)
(* differ in githubToken ("" when absent).  fetched is what GitHub let the *)
(* request read: "denied" or the data of the repository.  A message is its *)
(* destination, its credential and its body, the body being the sequence   *)
(* of the values it is built from.                                         *)
(***************************************************************************)
\* POST of ai-scan: the tree and the blobs with the Bearer header, then the LLM
AiScanPost ==
  /\ call.fn = "none"
  /\ \E key \in { "", "AIza" },
        t1 \in { "", "ghp_A", "ghp_B" }, t2 \in { "", "ghp_A", "ghp_B" },
        d1 \in { "denied", "repoX", "repoY" }, d2 \in { "denied", "repoX", "repoY" } :
       LET Sent(githubToken, fetched) ==
             LET Authorization == IF githubToken # "" THEN << "Bearer ", githubToken >>
                                  ELSE << >>
                 tree == [to |-> "api.github.com", auth |-> Authorization, body |-> << >>]
                 evidence == << "stats", "duplicates", "issues", fetched >>
                 llm == [to |-> "generativelanguage.googleapis.com", auth |-> << key >>,
                         body |-> << "SCAN_SYSTEM_PROMPT", "Evidence:", evidence,
                                     "temperature 0.1", "maxOutputTokens 1800" >>]
             IN  IF fetched = "denied" THEN << tree >>
                 ELSE IF key = "" THEN << tree, tree >>
                      ELSE << tree, tree, llm >>
       IN  call' = [fn |-> "ai-scan",
                    runs |-> << [githubToken |-> t1, fetched |-> d1, sent |-> Sent(t1, d1)],
                                [githubToken |-> t2, fetched |-> d2, sent |-> Sent(t2, d2)] >>]
  /\ UNCHANGED analyzerVars

\* POST of the README generator: githubRequest, getCandidateFiles and
\* getFileContent with the Bearer header, then the LLM
ReadmePost ==
  /\ call.fn = "none"
  /\ \E key \in { "", "AIza" }, userNotes \in { "", "notes" },
        t1 \in { "", "ghp_A", "ghp_B" }, t2 \in { "", "ghp_A", "ghp_B" },
        d1 \in { "denied", "repoX", "repoY" }, d2 \in { "denied", "repoX", "repoY" } :
       LET Sent(githubToken, fetched) ==
             LET Authorization == IF githubToken # "" THEN << "Bearer ", githubToken >>
                                  ELSE << >>
                 api == [to |-> "api.github.com", auth |-> Authorization, body |-> << >>]
                 basePrompt == << "buildPrompt", "owner/repo", fetched >>
                 finalPrompt == IF userNotes # ""
                                THEN basePrompt \o << "Additional author notes/preferences:",
                                                      userNotes >>
                                ELSE basePrompt
                 llm == [to |-> "generativelanguage.googleapis.com", auth |-> << key >>,
                         body |-> finalPrompt \o << "temperature 0.3", "maxOutputTokens 4096" >>]
             IN  IF fetched = "denied" THEN << api >>
                 ELSE IF key = "" THEN << api, api, api >>
                      ELSE << api, api, api, llm >>
       IN  call' = [fn |-> "readme",
                    runs |-> << [githubToken |-> t1, fetched |-> d1, sent |-> Sent(t1, d1)],
                                [githubToken |-> t2, fetched |-> d2, sent |-> Sent(t2, d2)] >>]
  /\ UNCHANGED analyzerVars

\* the repository context packed with the clone's .git/config, which holds the
\* URL of the remote and with it the token
CodeReviewPostPacksGitConfig ==
  /\ call.fn = "none"
  /\ \E key \in { "", "AIza" },
        t1 \in { "", "ghp_A", "ghp_B" }, t2 \in { "", "ghp_A", "ghp_B" },
        d1 \in { "denied", "repoX", "repoY" }, d2 \in { "denied", "repoX", "repoY" } :
       LET Sent(githubToken, fetched) ==
             LET cloneUrl == IF githubToken # ""
                             THEN << "https://", githubToken, "@github.com/owner/repo.git" >>
                             ELSE << "https://github.com/owner/repo.git" >>
                 clone == [to |-> "github.com", auth |-> cloneUrl, body |-> << >>]
                 prompt == << "CODE_REVIEW_PROMPT", "repoContext", fetched, cloneUrl,
                              "diffContent", fetched, "owner/repo", "branch", fetched,
                              "HEAD~1", "HEAD", "stats", fetched >>
                 llm == [to |-> "generativelanguage.googleapis.com", auth |-> << key >>,
                         body |-> prompt \o << "temperature 0.1", "maxOutputTokens 8192" >>]
             IN  IF key = "" THEN << >>
                 ELSE IF fetched = "denied" THEN << clone >>
                      ELSE << clone, llm >>
       IN  call' = [fn |-> "code-review",
                    runs |-> << [githubToken |-> t1, fetched |-> d1, sent |-> Sent(t1, d1)],
                                [githubToken |-> t2, fetched |-> d2, sent |-> Sent(t2, d2)] >>]
  /\ UNCHANGED analyzerVars

\* POST of code-review: the key is tested first, the clone URL carries the token,
\* and the prompt is built from the pack (without .git), the diff and the branch
CodeReviewPost ==
  /\ call.fn = "none"
  /\ \E key \in { "", "AIza" },
        t1 \in { "", "ghp_A", "ghp_B" }, t2 \in { "", "ghp_A", "ghp_B" },
        d1 \in { "denied", "repoX", "repoY" }, d2 \in { "denied", "repoX", "repoY" } :
       LET Sent(githubToken, fetched) ==
             LET cloneUrl == IF githubToken # ""
                             THEN << "https://", githubToken, "@github.com/owner/repo.git" >>
                             ELSE << "https://github.com/owner/repo.git" >>
                 clone == [to |-> "github.com", auth |-> cloneUrl, body |-> << >>]
                 prompt == << "CODE_REVIEW_PROMPT", "repoContext", fetched,
                              "diffContent", fetched, "owner/repo", "branch", fetched,
                              "HEAD~1", "HEAD", "stats", fetched >>
                 llm == [to |-> "generativelanguage.googleapis.com", auth |-> << key >>,
                         body |-> prompt \o << "temperature 0.1", "maxOutputTokens 8192" >>]
             IN  IF key = "" THEN << >>
                 ELSE IF fetched = "denied" THEN << clone >>
                      ELSE << clone, llm >>
       IN  call' = [fn |-> "code-review",
                    runs |-> << [githubToken |-> t1, fetched |-> d1, sent |-> Sent(t1, d1)],
                                [githubToken |-> t2, fetched |-> d2, sent |-> Sent(t2, d2)] >>]
  /\ UNCHANGED analyzerVars

NextToken ==
  \/ AiScanPost
  \/ ReadmePost
  \/ CodeReviewPost

SpecToken == InitRoutes /\ [][NextToken]_vars

\* the messages of a run that go to the generative-language API
ToLlm(run) == SelectSeq(run.sent, LAMBDA msg : msg.to = "generativelanguage.googleapis.com")

\* C23: two requests to the same handler whose tokens let them read the same
\* repository data send the same bodies to the generative-language API, and the
\* token is sent to GitHub only.
C23TokenStaysWithGitHub ==
  call.fn # "none" =>
    /\ call.runs[1].fetched = call.runs[2].fetched =>
         [n \in 1..Len(ToLlm(call.runs[1])) |-> ToLlm(call.runs[1])[n].body]
           = [n \in 1..Len(ToLlm(call.runs[2])) |-> ToLlm(call.runs[2])[n].body]
    /\ \A r \in 1..2 : \A n \in 1..Len(call.runs[r].sent) :
         LET msg == call.runs[r].sent[n]
         IN  (call.runs[r].githubToken # "" /\ call.runs[r].githubToken \in SetOf(msg.auth))
               => msg.to \in { "api.github.com", "github.com" }

\* C23, witness: code-review cloned the same repository with two different tokens
\* and sent one and the same prompt to the LLM
C23Witness ==
  /\ call.fn = "code-review"
  /\ call.runs[1].githubToken = "ghp_A"
  /\ call.runs[2].githubToken = "ghp_B"
  /\ call.runs[1].fetched = "repoX"
  /\ call.runs[2].fetched = "repoX"
  /\ Len(ToLlm(call.runs[1])) = 1
  /\ ToLlm(call.runs[1]) = ToLlm(call.runs[2])
  /\ call.runs[1].sent[1].auth # call.runs[2].sent[1].auth

(***************************************************************************)
(* Files that share a path.                                                *)
(***************************************************************************)
\* the positions of the files whose path no earlier file has
FirstOfPath == { n \in 1..Len(files) : \A m \in 1..(n - 1) : files[m].path # files[n].path }

\* the distinct paths in the order of their first file
PathsInFileOrder ==
  [k \in 1..Cardinality(FirstOfPath) |->
     files[CHOOSE n \in FirstOfPath : Cardinality({ m \in FirstOfPath : m < n }) = k - 1].path]

\* the last file under a path
LastWithPath(path) ==
  files[CHOOSE n \in 1..Len(files) :
          /\ files[n].path = path
          /\ \A m \in (n + 1)..Len(files) : files[m].path # path]

\* C24: when files share a path, every file is counted in stats and gets its
\* per-file issues; the pair phase has one entry per path, at the place of the
\* first file of that path and with the shingles of the last one, and never
\* compares or reports a path with itself.
C24SharedPath ==
  /\ \A n \in 1..Len(compared) : paths[compared[n][1] + 1] # paths[compared[n][2] + 1]
  /\ \A n \in 1..Len(duplicateClusters) :
       duplicateClusters[n].files[1] # duplicateClusters[n].files[2]
  /\ (pc = "outer" /\ i = 0 /\ ~DistinctPaths) =>
       /\ stats.filesAnalyzed = Len(files)
       /\ stats.bytesAnalyzed = SizeSum(files, Len(files))
       /\ issues = ConcatAll([n \in 1..Len(files) |->
                                PerFileIssues(files[n], tokenize(files[n].content))])
       /\ paths = PathsInFileOrder
       /\ shingleMap.keys = paths
       /\ \A n \in 1..Len(paths) :
            MapGet(shingleMap, paths[n])
              = SetOf(shingles(tokenize(LastWithPath(paths[n]).content), ShingleSize))

\* C24, witness: the first and the third file share a path and differ in content:
\* the one pair compared is (first path, second path), the first path standing
\* for the third file, and both files of the path have their complexity issue
C24Witness ==
  /\ pc = "done"
  /\ Len(files) = 3
  /\ files[1].path = files[3].path
  /\ files[1].path # files[2].path
  /\ files[1].content # files[3].content
  /\ files[2].content = files[1].content
  /\ paths = << files[1].path, files[2].path >>
  /\ compared = << << 0, 1 >> >>
  /\ stats.filesAnalyzed = 3
  /\ Len(SelectSeq(issues, LAMBDA x : IsCyclomatic(x) /\ x.file = files[1].path)) = 2
  /\ MapGet(shingleMap, paths[1]) # MapGet(shingleMap, paths[2])

MaxBlobs == 5
LimitBytes == 800000
LargeFileBytes == 200000

\* parseRepo, then the tree request of fetchRepoFiles and the filter on the tree
AiScanTree ==
  /\ call.fn = "none"
  /\ \/ call' = [fn |-> "ai-scan POST", at |-> "answered",
                  response |-> [status |-> 400, body |-> [error |-> "Provide a GitHub URL or owner/repo"]]]
     \/ call' = [fn |-> "ai-scan POST", at |-> "answered",
                  response |-> [status |-> 500, body |-> [error |-> "GitHub API: failed to read tree"]]]
     \/ \E count \in 0..MaxBlobs :
          call' = [fn |-> "ai-scan POST", at |-> "blobs", blobs |-> count, node |-> 0,
                   files |-> << >>, budget |-> LimitBytes, log |-> << >>]
  /\ UNCHANGED analyzerVars

\* a loop that only skips the files over 200000 bytes
AiScanBlobNoBudgetTest ==
  /\ call.fn = "ai-scan POST"
  /\ call.at = "blobs"
  /\ call.node < call.blobs
  /\ call.budget > 0
  /\ \E ok \in BOOLEAN, length \in { 0, 1, LargeFileBytes, LargeFileBytes + 1 } :
       LET kept == ok /\ ~(length > LargeFileBytes)
       IN  call' = [call EXCEPT
                      !.node = @ + 1,
                      !.files = IF kept THEN Append(@, [path |-> call.node, size |-> length])
                                ELSE @,
                      !.budget = IF kept THEN @ - length ELSE @,
                      !.log = Append(@, [node |-> call.node, budget |-> call.budget,
                                         ok |-> ok, length |-> length])]
  /\ UNCHANGED analyzerVars

\* one iteration of `for (const node of blobs)` past the test of the budget
AiScanBlob ==
  /\ call.fn = "ai-scan POST"
  /\ call.at = "blobs"
  /\ call.node < call.blobs
  /\ call.budget > 0
  /\ \E ok \in BOOLEAN, length \in { 0, 1, LargeFileBytes, LargeFileBytes + 1 } :
       LET min  == IF call.budget < LargeFileBytes THEN call.budget ELSE LargeFileBytes
           kept == ok /\ ~(length > min)
       IN  call' = [call EXCEPT
                      !.node = @ + 1,
                      !.files = IF kept THEN Append(@, [path |-> call.node, size |-> length])
                                ELSE @,
                      !.budget = IF kept THEN @ - length ELSE @,
                      !.log = Append(@, [node |-> call.node, budget |-> call.budget,
                                         ok |-> ok, length |-> length])]
  /\ UNCHANGED analyzerVars

\* the loop is over (no blob left, or break on budget <= 0): analyzeFiles, the
\* test of the key, the LLM request and the answer
AiScanAnswer ==
  /\ call.fn = "ai-scan POST"
  /\ call.at = "blobs"
  /\ call.node = call.blobs \/ call.budget <= 0
  /\ LET heur == << "analyzeFiles", call.files >>
     IN  \E response \in
              { \* GEMINI_API_KEY is not set
                [status |-> 200, llm |-> "not asked",
                 body |-> [heuristics |-> heur, ai |-> "null",
                           warning |-> "GEMINI_API_KEY not set; returning heuristic results only."]],
                \* fetch rejects or resp.json() throws: the outer catch answers
                [status |-> 500, llm |-> "threw",
                 body |-> [error |-> "Unexpected error"]],
                \* the answer of the LLM is not OK
                [status |-> 200, llm |-> "not ok",
                 body |-> [heuristics |-> heur, ai |-> "null", warning |-> "Gemini call failed"]],
                \* the text is not JSON
                [status |-> 200, llm |-> "not JSON",
                 body |-> [heuristics |-> heur, ai |-> << "raw", "text" >>]],
                [status |-> 200, llm |-> "JSON",
                 body |-> [heuristics |-> heur, ai |-> << "JSON.parse", "text" >>]] } :
           call' = [fn |-> call.fn, at |-> "answered", blobs |-> call.blobs,
                    node |-> call.node, files |-> call.files, budget |-> call.budget,
                    log |-> call.log, response |-> response]
  /\ UNCHANGED analyzerVars

NextAiScan ==
  \/ AiScanTree
  \/ AiScanBlob
  \/ AiScanAnswer

SpecAiScan == InitRoutes /\ [][NextAiScan]_vars

RECURSIVE SizesSum(_)
SizesSum(list) == IF list = << >> THEN 0 ELSE Head(list).size + SizesSum(Tail(list))

InFetchLoop == call.fn = "ai-scan POST" /\ "budget" \in DOMAIN call

C27AlwaysHeuristics ==
  (call.fn = "ai-scan POST" /\ call.at = "answered" /\ "files" \in DOMAIN call) =>
    /\ "heuristics" \in DOMAIN call.response.body
    /\ call.response.body.heuristics = << "analyzeFiles", call.files >>

(***************************************************************************)
(* POST of security-scan, in its two versions: route.ts, which keeps       *)
(* silent on a 404 and tells when no feature is enabled, and part_003,     *)
(* which warns on every failure.  call.requests is history: the GitHub     *)
(* requests issued; an outcome is "ok", "204" or the status of a failure.  *)
(***************************************************************************)
\* the body is read and validated, and a request without token is answered
SecurityScanPost ==
  /\ call.fn = "none"
  /\ \E version \in { "route.ts", "part_003" },
        repo \in { "", "not a repo", "owner/repo" }, githubToken \in { "", "ghp_A", "ghp_B" } :
       call' =
         IF repo = ""
         THEN [fn |-> "security-scan POST", at |-> "answered", repo |-> repo,
               githubToken |-> githubToken, requests |-> << >>, outcomes |-> << >>,
               response |-> [status |-> 400, body |-> [error |-> "Missing repo"]]]
         ELSE IF repo = "not a repo"
         THEN [fn |-> "security-scan POST", at |-> "answered", repo |-> repo,
               githubToken |-> githubToken, requests |-> << >>, outcomes |-> << >>,
               response |-> [status |-> 400,
                             body |-> [error |-> "Invalid repo format. Use URL or owner/repo."]]]
         ELSE IF githubToken = ""
         THEN [fn |-> "security-scan POST", at |-> "answered", repo |-> repo,
               githubToken |-> githubToken, requests |-> << >>, outcomes |-> << >>,
               response |-> [status |-> 200,
                             body |-> [dependabot |-> "null", codeScanning |-> "null",
                                       requiresAuth |-> TRUE,
                                       warnings |-> << "requires authentication", "provide a PAT" >>]]]
         ELSE [fn |-> "security-scan POST", at |-> "dependabot", version |-> version,
               repo |-> repo, githubToken |-> githubToken,
               requests |-> << >>, outcomes |-> << >>,
               result |-> [dependabot |-> "null", codeScanning |-> "null", warnings |-> << >>,
                           hasSecurityFeatures |-> FALSE]]
  /\ UNCHANGED analyzerVars

\* a failure of the Dependabot request ends the handler in its outer catch
SecurityScanDependabotFailsFast ==
  /\ call.fn = "security-scan POST"
  /\ call.at = "dependabot"
  /\ \E outcome \in { "ok", "204", "401", "403", "404", "500" } :
       IF outcome \in { "ok", "204" }
       THEN call' = [call EXCEPT
                       !.at = "codeScanning",
                       !.requests = Append(@, "dependabot/alerts"),
                       !.outcomes = Append(@, outcome),
                       !.result = [@ EXCEPT !.dependabot = IF outcome = "ok" THEN "alerts" ELSE << >>,
                                            !.hasSecurityFeatures = TRUE]]
       ELSE call' = [fn |-> call.fn, at |-> "answered", repo |-> call.repo,
                     githubToken |-> call.githubToken,
                     requests |-> Append(call.requests, "dependabot/alerts"),
                     outcomes |-> Append(call.outcomes, outcome),
                     response |-> [status |-> 500, body |-> [error |-> outcome]]]
  /\ UNCHANGED analyzerVars

\* try { githubRequest(dependabot/alerts) } catch { perhaps a warning }
SecurityScanDependabot ==
  /\ call.fn = "security-scan POST"
  /\ call.at = "dependabot"
  /\ \E outcome \in { "ok", "204", "401", "403", "404", "500" } :
       call' = [call EXCEPT
                  !.at = "codeScanning",
                  !.requests = Append(@, "dependabot/alerts"),
                  !.outcomes = Append(@, outcome),
                  !.result =
                     IF outcome \in { "ok", "204" }
                     THEN [@ EXCEPT !.dependabot = IF outcome = "ok" THEN "alerts" ELSE << >>,
                                    !.hasSecurityFeatures = TRUE]
                     ELSE IF call.version = "route.ts" /\ outcome = "404"
                          THEN @
                          ELSE [@ EXCEPT !.warnings = Append(@, << "Dependabot alerts", outcome >>)]]
  /\ UNCHANGED analyzerVars

\* try { githubRequest(code-scanning/alerts) } catch { perhaps a warning }, the
\* note of route.ts when nothing is enabled, and the answer
SecurityScanCodeScanning ==
  /\ call.fn = "security-scan POST"
  /\ call.at = "codeScanning"
  /\ \E outcome \in { "ok", "204", "401", "403", "404", "500" } :
       LET tried == IF outcome \in { "ok", "204" }
                    THEN [call.result EXCEPT
                            !.codeScanning = IF outcome = "ok" THEN "alerts" ELSE << >>,
                            !.hasSecurityFeatures = TRUE]
                    ELSE IF call.version = "route.ts" /\ outcome = "404"
                         THEN call.result
                         ELSE [call.result EXCEPT
                                 !.warnings = Append(@, << "Code scanning alerts", outcome >>)]
           result == IF call.version = "route.ts" /\ ~tried.hasSecurityFeatures
                        /\ Len(tried.warnings) = 0
                     THEN [tried EXCEPT !.warnings = Append(@, << "No security scanning features" >>)]
                     ELSE tried
       IN  call' = [fn |-> call.fn, at |-> "answered", version |-> call.version,
                    repo |-> call.repo, githubToken |-> call.githubToken,
                    requests |-> Append(call.requests, "code-scanning/alerts"),
                    outcomes |-> Append(call.outcomes, outcome),
                    response |-> [status |-> 200, body |-> result]]
  /\ UNCHANGED analyzerVars

NextSecurityScan ==
  \/ SecurityScanPost
  \/ SecurityScanDependabot
  \/ SecurityScanCodeScanning

SpecSecurityScan == InitRoutes /\ [][NextSecurityScan]_vars

\* the requests that failed
FailedRequests ==
  { n \in 1..Len(call.outcomes) : call.outcomes[n] \notin { "ok", "204" } }

\* C28: for a parseable repo security-scan answers 200: without token with
\* requiresAuth and no GitHub request; with a token after the Dependabot request
\* and then the code-scanning request, both attempted whatever the first one
\* did, with at most one warning for each request that failed.
C28AlertsNeverFail ==
  call.fn = "security-scan POST" =>
    /\ call.requests \in { << >>, << "dependabot/alerts" >>,
                           << "dependabot/alerts", "code-scanning/alerts" >> }
    /\ (call.at = "answered" /\ call.repo = "owner/repo") =>
         /\ call.response.status = 200
         /\ call.githubToken = "" =>
              /\ call.requests = << >>
              /\ call.response.body.requiresAuth
         /\ call.githubToken # "" =>
              /\ call.requests = << "dependabot/alerts", "code-scanning/alerts" >>
              /\ Len(call.response.body.warnings) <= Cardinality(FailedRequests)
              /\ FailedRequests = {} => call.response.body.warnings = << >>

\* C28, witness: the Dependabot request was refused with 403, the code-scanning
\* request was made all the same and answered, and the answer is 200 with one warning
C28Witness ==
  /\ call.fn = "security-scan POST"
  /\ call.at = "answered"
  /\ call.githubToken # ""
  /\ call.outcomes = << "403", "ok" >>
  /\ call.response.status = 200
  /\ Len(call.response.body.warnings) = 1
  /\ call.response.body.codeScanning = "alerts"

(***************************************************************************)
(* POST of create-readme-pr (git-diff/route.ts:111-196).  call.requests is *)
(* history: the GitHub requests issued, call.outcomes the status of each   *)
(* answer, 0 when fetch rejects and there is no answer.  githubRequest     *)
(* throws "GitHub API <status>: ..." unless the status is 2xx, and returns *)
(* undefined on 204.                                                       *)
(***************************************************************************)
\* the body is read and validated: each failure answers 400
ReadmePrPost ==
  /\ call.fn = "none"
  /\ \E repo \in { "", "not a repo", "owner/repo" }, token \in { "", "ghp_A" },
        markdown \in { "", "# Title" } :
       call' = [fn |-> "create-readme-pr POST", repo |-> repo, token |-> token,
                markdown |-> markdown, requests |-> << >>, outcomes |-> << >>,
                at |-> IF repo = "owner/repo" /\ token # "" /\ markdown # ""
                       THEN "requests" ELSE "answered",
                response |-> IF repo = "" THEN [status |-> 400, error |-> "Missing repo"]
                             ELSE IF token = "" THEN [status |-> 400, error |-> "Missing token"]
                             ELSE IF markdown = ""
                                  THEN [status |-> 400, error |-> "Missing markdown"]
                             ELSE IF repo = "not a repo"
                                  THEN [status |-> 400, error |-> "Invalid repo format"]
                             ELSE [status |-> 0]]
  /\ UNCHANGED analyzerVars

\* every request in a try/catch of its own, as the lookup of the README is
ReadmePrRequestKeepsGoing ==
  /\ call.fn = "create-readme-pr POST"
  /\ call.at = "requests"
  /\ \E outcome \in { 0, 200, 204, 401, 403, 404, 422, 500 } :
       LET request == << "repos/owner/repo", "git/ref/heads", "git/refs", "contents/README.md?ref",
                         "contents/README.md", "pulls" >>[Len(call.requests) + 1]
           last == request = "pulls"
       IN  call' = [call EXCEPT
                      !.requests = Append(@, request),
                      !.outcomes = Append(@, outcome),
                      !.at = IF last THEN "answered" ELSE @,
                      !.response = IF last THEN [status |-> 200, url |-> "html_url"] ELSE @]
  /\ UNCHANGED analyzerVars

\* the next githubRequest and what follows it up to the next one, or the answer
ReadmePrRequest ==
  /\ call.fn = "create-readme-pr POST"
  /\ call.at = "requests"
  /\ \E outcome \in { 0, 200, 204, 401, 403, 404, 422, 500 } :
       LET request == << "repos/owner/repo", "git/ref/heads", "git/refs", "contents/README.md?ref",
                         "contents/README.md", "pulls" >>[Len(call.requests) + 1]
           \* githubRequest throws, or the result undefined is dereferenced
           threw == \/ outcome \notin { 200, 204 }
                    \/ outcome = 204 /\ request \in { "repos/owner/repo", "git/ref/heads",
                                                       "contents/README.md?ref", "pulls" }
           caught == request = "contents/README.md?ref"
           \* msg.match(/^GitHub API (\d{3}):/), 500 without a match
           status == IF outcome \in { 0, 200, 204 } THEN 500 ELSE outcome
       IN  call' = [call EXCEPT
                      !.requests = Append(@, request),
                      !.outcomes = Append(@, outcome),
                      !.at = IF (threw /\ ~caught) \/ request = "pulls" THEN "answered" ELSE @,
                      !.response = IF threw /\ ~caught THEN [status |-> status, error |-> "msg"]
                                   ELSE IF request = "pulls"
                                        THEN [status |-> 200, url |-> "html_url"]
                                        ELSE @]
  /\ UNCHANGED analyzerVars

NextReadmePr ==
  \/ ReadmePrPost
  \/ ReadmePrRequest

SpecReadmePr == InitRoutes /\ [][NextReadmePr]_vars

RequestOrder ==
  << "repos/owner/repo", "git/ref/heads", "git/refs", "contents/README.md?ref",
     "contents/README.md", "pulls" >>

\* C29: create-readme-pr issues its GitHub requests in the order default branch,
\* base ref, create branch, look up README, commit README, open pull request; a
\* validation failure issues none; a request other than the lookup that fails is
\* the last one issued, so the pull request comes after a created branch and a
\* committed README; the answer then has the status of the failed request, 500
\* when there is none.
C29RequestOrder ==
  call.fn = "create-readme-pr POST" =>
    /\ call.requests = SubSeq(RequestOrder, 1, Len(call.requests))
    /\ (call.repo # "owner/repo" \/ call.token = "" \/ call.markdown = "") =>
         (call.requests = << >> /\ call.at = "answered" /\ call.response.status = 400)
    /\ \A n \in 1..Len(call.requests) :
         (call.outcomes[n] \notin { 200, 204 } /\ call.requests[n] # "contents/README.md?ref") =>
           /\ n = Len(call.requests)
           /\ call.at = "answered"
           /\ call.response.status = IF call.outcomes[n] = 0 THEN 500 ELSE call.outcomes[n]
    /\ Len(call.requests) = 6 =>
         (call.outcomes[3] \in { 200, 204 } /\ call.outcomes[5] \in { 200, 204 })

\* C29, witness: the README was not there (404 on the lookup), the commit was
\* refused with 422: no pull request was opened and the answer is 422
C29Witness ==
  /\ call.fn = "create-readme-pr POST"
  /\ call.at = "answered"
  /\ call.outcomes = << 200, 200, 200, 404, 422 >>
  /\ call.requests = SubSeq(RequestOrder, 1, 5)
  /\ call.response.status = 422

(***************************************************************************)
(* The handlers that clone: POST of git-diff, code-review and repomix.     *)
(* Each makes a temporary directory and then runs                          *)
(*   try { clone and work; return } catch { return } finally { remove }.   *)
(* call.steps is history: the steps of the try block taken, call.returned  *)
(* the answer the try or catch block returned, call.removal what became of *)
(* fs.rmSync.  An outcome is "ok" or the message of the error thrown.      *)
(***************************************************************************)
\* validation, the test of the key in code-review, and fs.mkdtempSync
ClonePost ==
  /\ call.fn = "none"
  /\ \E handler \in { "git-diff", "code-review", "repomix" },
        repo \in { "", "not a repo", "owner/repo" }, key \in { "", "AIza" },
        mkdtemp \in { "ok", "ENOSPC" } :
       LET early == IF repo = "" THEN [status |-> 400, error |-> "Missing repo parameter"]
                    ELSE IF repo = "not a repo"
                         THEN [status |-> 400, error |-> "Invalid GitHub repo. Use URL or owner/repo."]
                    ELSE IF handler = "code-review" /\ key = ""
                         THEN [status |-> 503, error |-> "AI code review requires Gemini API key to be configured."]
                    ELSE IF mkdtemp # "ok" THEN [status |-> 500, error |-> mkdtemp]
                    ELSE [status |-> 0]
       IN  call' = [fn |-> "clone POST", handler |-> handler,
                    at |-> IF early.status = 0 THEN "try" ELSE "answered",
                    tempDir |-> early.status = 0,
                    steps |-> << >>, removal |-> "not attempted",
                    returned |-> early, response |-> early]
  /\ UNCHANGED analyzerVars

\* the next step of the try block; an error goes to the catch block, which
\* picks the answer from the message
CloneTry ==
  /\ call.fn = "clone POST"
  /\ call.at = "try"
  /\ \E outcome \in { "ok", "Authentication failed", "not found", "Not a git repository",
                       "Gemini API error", "timed out" } :
       LET body == IF call.handler = "git-diff"
                   THEN << "git clone", "getGitDiff", "getCurrentBranch", "getGitLog" >>
                   ELSE IF call.handler = "code-review"
                        THEN << "git clone", "getGitDiff", "packRepository", "getCurrentBranch",
                                "fetch", "response.json" >>
                        ELSE << "git clone", "packRepository" >>
           step == body[Len(call.steps) + 1]
           \* code-review catches a failure of packRepository where it happens
           caught == outcome = "ok" \/ (call.handler = "code-review" /\ step = "packRepository")
           answer == IF outcome = "Authentication failed"
                     THEN [status |-> 403, error |-> "Repository access denied."]
                     ELSE IF outcome = "not found"
                          THEN [status |-> 404, error |-> "Repository not found."]
                     ELSE IF call.handler = "git-diff" /\ outcome = "Not a git repository"
                          THEN [status |-> 400, error |-> "Invalid git repository or no commits found."]
                     ELSE IF call.handler = "code-review" /\ outcome = "Gemini API error"
                          THEN [status |-> 503, error |-> "AI service temporarily unavailable."]
                     ELSE [status |-> 500, error |-> outcome]
       IN  call' = [call EXCEPT
                      !.steps = Append(@, << step, outcome >>),
                      !.at = IF ~caught \/ Len(call.steps) + 1 = Len(body) THEN "finally" ELSE @,
                      !.returned = IF ~caught THEN answer
                                   ELSE IF Len(call.steps) + 1 = Len(body)
                                        THEN [status |-> 200, success |-> TRUE]
                                        ELSE @]
  /\ UNCHANGED analyzerVars

\* a finally block without the inner try: a failed removal goes to the outer catch
CloneFinallyRethrows ==
  /\ call.fn = "clone POST"
  /\ call.at = "finally"
  /\ \E rmSync \in { "removed", "EBUSY" } :
       call' = [call EXCEPT !.removal = rmSync,
                            !.at = "answered",
                            !.response = IF rmSync = "removed" THEN call.returned
                                         ELSE [status |-> 500, error |-> rmSync]]
  /\ UNCHANGED analyzerVars

\* finally { try { fs.rmSync(tempDir, ...) } catch { } }, then the answer goes out
CloneFinally ==
  /\ call.fn = "clone POST"
  /\ call.at = "finally"
  /\ \E rmSync \in { "removed", "EBUSY" } :
       call' = [call EXCEPT !.removal = rmSync,
                            !.at = "answered",
                            !.response = call.returned]
  /\ UNCHANGED analyzerVars

NextClone ==
  \/ ClonePost
  \/ CloneTry
  \/ CloneFinally

SpecClone == InitRoutes /\ [][NextClone]_vars

\* C30: in git-diff, code-review and repomix, when the temporary directory was
\* made its removal is attempted before the handler answers, whether the try
\* block succeeded or failed at the clone, the diff, the pack or the LLM, and
\* the answer is the one returned before the removal, failed or not; no
\* removal is attempted when no directory was made.
C30CleanupBeforeAnswer ==
  call.fn = "clone POST" =>
    /\ (call.at = "answered" /\ call.tempDir) => call.removal # "not attempted"
    /\ call.at = "answered" => call.response = call.returned
    /\ ~call.tempDir => (call.removal = "not attempted" /\ call.steps = << >>)
    /\ call.at \in { "try", "finally" } => call.removal = "not attempted"

\* C30, witness: code-review cloned, got the diff and the branch, the LLM request
\* failed, the removal failed too, and the answer is the 503 of the catch block
C30Witness ==
  /\ call.fn = "clone POST"
  /\ call.handler = "code-review"
  /\ call.at = "answered"
  /\ Len(call.steps) = 5
  /\ call.steps[5] = << "fetch", "Gemini API error" >>
  /\ call.removal = "EBUSY"
  /\ call.response.status = 503
====
